---------------------------- MODULE Spec2Model ----------------------------
(***************************************************************************)
(* A model of the SSD core engine (meaning pressure, alignment, leap,      *)
(* two-stage reaction, prediction cache).                                  *)
(*                                                                         *)
(* Real numbers are fixed-point integers: a value x of the program is the  *)
(* integer x * SCALE, products are rescaled with integer division.         *)
(* Reaction times are counted in hundredths of a tick (TICK per tick).     *)
(***************************************************************************)
EXTENDS Integers, Sequences, FiniteSets, TLC

VARIABLES
    E,                  \* MeaningPressureProcessor.E
    layers,             \* SSDCoreEngine.layers: layer -> (element id -> StructuralState)
    global_kappa,       \* AlignmentProcessor.global_kappa: element id -> kappa
    perceived_objects,  \* SSDCoreEngine.perceived_objects (ids of the catalogue)
    current_time,       \* SSDCoreEngine.current_time
    similarity_cache,   \* MeaningPressureProcessor._similarity_cache
    total_heat_loss,    \* AlignmentProcessor.total_heat_loss
    T,                  \* DecisionSystem.T
    decision_history,   \* DecisionSystem.decision_history
    last_cleanup,       \* MaintenanceManager.last_cleanup
    calls,              \* number of direct API calls made so far (model bound only)
    last_op,            \* the operation that produced the current state, with its inputs
    pending_reactions,  \* TwoStageReactionSystem.pending_reactions (left = oldest)
    pending_maxlen,     \* TRUE while pending_reactions is the deque(maxlen=100) of __init__
    caller_time,        \* the clock value the caller passes to react / reprocess
    immediate,          \* return value of the last process_reaction
    processed,          \* return value of the last process_conscious_reactions
    prediction_cache,   \* PredictionSystem.prediction_cache: timestamp -> number of entries
    distinct_predictions, \* number of distinct cache keys stored so far (saturating)
    prediction,         \* the last predict_future_state call: inputs and returned result
    leap_check,         \* inputs and outcome of the last check_leap_condition
    leap_result,        \* the LeapResult of the last execute_leap
    territories,        \* TerritoryProcessor.territories, in insertion order
    npc_territories,    \* TerritoryProcessor.npc_territories: npc id -> territory id
    boundary_strength,  \* SubjectiveBoundary.boundary_strength of every NPC
    interaction,        \* the last check_territorial_interaction call and its result
    leap_history,       \* ChaoticLeapProcessor.leap_history
    strange_attractor_state, \* ChaoticLeapProcessor.strange_attractor_state
    time_step,          \* ChaoticLeapProcessor.time_step
    leap_event          \* the value the last ChaoticLeapProcessor.execute_leap returned

vars == <<E, layers, global_kappa, perceived_objects, current_time, similarity_cache,
          total_heat_loss, T, decision_history, last_cleanup, calls, last_op,
          pending_reactions, pending_maxlen, caller_time, immediate, processed,
          prediction_cache, distinct_predictions, prediction, leap_check, leap_result,
          territories, npc_territories, boundary_strength, interaction,
          leap_history, strange_attractor_state, time_step, leap_event>>

engineVars == <<E, layers, global_kappa, perceived_objects, current_time,
               similarity_cache, total_heat_loss, T, decision_history, last_cleanup>>
reactVars  == <<pending_reactions, pending_maxlen, immediate, processed>>
cacheVars  == <<prediction_cache, distinct_predictions, prediction>>
territoryVars == <<territories, npc_territories, boundary_strength, interaction>>
chaosVars  == <<leap_history, strange_attractor_state, time_step, leap_event>>

-----------------------------------------------------------------------------
(* Fixed-point arithmetic *)

SCALE == 100 * 100
TICK == 10 * 10

Min(a, b) == IF a <= b THEN a ELSE b
Max(a, b) == IF a >= b THEN a ELSE b

\* Division rounding toward minus infinity is \div; products of two scaled
\* values are rescaled once.
Mul(a, b) == (a * b) \div SCALE

RECURSIVE SumSeq(_)
SumSeq(s) == IF s = <<>> THEN 0 ELSE Head(s) + SumSeq(Tail(s))

RECURSIVE SetToSeq(_)
SetToSeq(S) == IF S = {} THEN <<>>
               ELSE LET x == CHOOSE y \in S : TRUE IN <<x>> \o SetToSeq(S \ {x})

-----------------------------------------------------------------------------
(* The four layers *)

LayerType == <<"physical", "base", "core", "upper">>
Layers == {LayerType[i] : i \in 1..4}

layer_mobility(layer) ==
    CASE layer = "physical" -> 1000
      [] layer = "base"     -> 3000
      [] layer = "core"     -> 6000
      [] layer = "upper"    -> 9000

get_survival_weight(layer) ==
    CASE layer = "physical" -> 10000
      [] layer = "base"     -> 9000
      [] layer = "core"     -> 6000
      [] layer = "upper"    -> 3000

-----------------------------------------------------------------------------
(* Two-stage reaction system (TwoStageReactionSystem) *)

unconscious_response_time == TICK \div 20     \* 0.05
conscious_processing_time == (35 * TICK) \div 100   \* 0.35
PendingMaxLen == 100

base_response_weights(type) ==
    CASE type = "threat"   -> 9500
      [] type = "food"     -> 8000
      [] type = "water"    -> 8500
      [] type = "shelter"  -> 7000
      [] type = "social"   -> 6000
      [] type = "tool"     -> 4000
      [] type = "abstract" -> 2000
      [] OTHER             -> 3000

\* a base layer that flees by the response strength instead of the intensity
flees_by_strength(stimulus, now) ==
    LET base_weight == base_response_weights(stimulus.type)
        response_strength == Mul(base_weight, stimulus.intensity)
        action ==
            IF stimulus.type = "threat" /\ response_strength > 7000
            THEN (IF response_strength > 8000 THEN "flee" ELSE "freeze")
            ELSE IF stimulus.type \in {"food", "water"} /\ response_strength > 6000
            THEN "approach"
            ELSE "observe"
    IN [action |-> action, strength |-> response_strength,
        reaction_time |-> unconscious_response_time, layer |-> "BASE",
        confidence |-> base_weight, timestamp |-> now]

\* _immediate_base_layer_response(stimulus, current_time)
immediate_base_layer_response(stimulus, now) ==
    LET base_weight == base_response_weights(stimulus.type)
        response_strength == Mul(base_weight, stimulus.intensity)
        action ==
            IF stimulus.type = "threat" /\ response_strength > 7000
            THEN (IF stimulus.intensity > 8000 THEN "flee" ELSE "freeze")
            ELSE IF stimulus.type \in {"food", "water"} /\ response_strength > 6000
            THEN "approach"
            ELSE "observe"
    IN [action |-> action, strength |-> response_strength,
        reaction_time |-> unconscious_response_time, layer |-> "BASE",
        confidence |-> base_weight, timestamp |-> now]

\* _core_layer_adjustment(stimulus, unconscious)
core_layer_adjustment(stimulus, unconscious) ==
    IF unconscious.action = "flee" /\ stimulus.social_context
    THEN [action |-> "controlled_withdrawal", confidence |-> 8000,
          suppression_factor |-> 6000]
    ELSE IF unconscious.action = "approach" /\ stimulus.danger_level > 3000
    THEN [action |-> "cautious_approach", confidence |-> 7000,
          suppression_factor |-> 4000]
    ELSE [action |-> unconscious.action, confidence |-> 7000,
          suppression_factor |-> 1000]

\* _upper_layer_evaluation(stimulus, unconscious)
upper_layer_evaluation(stimulus, unconscious) ==
    LET recommendation ==
            IF stimulus.value_alignment > 8000 THEN "enhance"
            ELSE IF stimulus.value_alignment < 3000 THEN "suppress"
            ELSE "neutral"
    IN [recommendation |-> recommendation,
        value_score |-> stimulus.value_alignment,
        long_term_score |-> stimulus.long_term_benefit,
        confidence |-> (stimulus.value_alignment + stimulus.long_term_benefit) \div 2]

\* an integration that leaves the upper layer's recommendation out
integrate_without_upper(unconscious, core, upper) ==
    LET final_strength == Mul(unconscious.strength, SCALE - core.suppression_factor)
    IN IF final_strength > 7000 THEN unconscious.action
       ELSE IF final_strength > 4000 THEN core.action
       ELSE "deliberate"

\* _integrate_multi_layer_response(unconscious, core, upper)
integrate_multi_layer_response(unconscious, core, upper) ==
    LET upper_modifier ==
            IF upper.recommendation = "enhance" THEN SCALE
            ELSE IF upper.recommendation = "suppress" THEN 5000 ELSE 8000
        final_strength ==
            Mul(Mul(unconscious.strength, SCALE - core.suppression_factor),
                upper_modifier)
    IN IF final_strength > 7000 THEN unconscious.action
       ELSE IF final_strength > 4000 THEN core.action
       ELSE "deliberate"

\* _conscious_reprocessing(stimulus, unconscious, layers)
conscious_reprocessing(stimulus, unconscious) ==
    LET core_adjustment == core_layer_adjustment(stimulus, unconscious)
        upper_evaluation == upper_layer_evaluation(stimulus, unconscious)
    IN [final_action |->
            integrate_multi_layer_response(unconscious, core_adjustment,
                                           upper_evaluation),
        unconscious_response |-> unconscious,
        core_adjustment |-> core_adjustment,
        upper_evaluation |-> upper_evaluation,
        processing_time |-> conscious_processing_time,
        integration_confidence |->
            (core_adjustment.confidence + upper_evaluation.confidence) \div 2]

\* an append that empties a full bounded queue
deque_append_clearing(q, bounded, x) ==
    IF bounded /\ Len(q) >= PendingMaxLen THEN <<x>> ELSE Append(q, x)

\* deque.append on pending_reactions: a deque(maxlen=100) that is full drops
\* its leftmost entry; the plain deque() never drops.
deque_append(q, bounded, x) ==
    IF bounded /\ Len(q) >= PendingMaxLen THEN Append(Tail(q), x) ELSE Append(q, x)

\* the scheduled time of an entry enqueued at `now`
scheduled_time(now) == now + conscious_processing_time

\* a release test that reads the enqueue time instead of the scheduled time
due_at_enqueue(reaction, now) == now >= reaction.timestamp

\* the loop condition of process_conscious_reactions
is_due(reaction, now) == now >= reaction.process_at

\* a reprocessing that puts every entry back
remaining_keeps_all(q, now) == q

\* the `remaining` deque built by process_conscious_reactions
remaining_reactions(q, now) == SelectSeq(q, LAMBDA r : ~is_due(r, now))

\* the `processed` list built by process_conscious_reactions
RECURSIVE processed_reactions(_, _)
processed_reactions(q, now) ==
    IF q = <<>> THEN <<>>
    ELSE IF is_due(Head(q), now)
         THEN <<conscious_reprocessing(Head(q).stimulus, Head(q).unconscious)>>
              \o processed_reactions(Tail(q), now)
         ELSE processed_reactions(Tail(q), now)

\* The state change of process_reaction(stimulus, now)
react_update(stimulus, now) ==
    LET unconscious == immediate_base_layer_response(stimulus, now)
    IN /\ pending_reactions' =
              deque_append(pending_reactions, pending_maxlen,
                           [stimulus |-> stimulus, unconscious |-> unconscious,
                            process_at |-> scheduled_time(now), timestamp |-> now])
       /\ immediate' = unconscious

\* The state change of process_conscious_reactions(now, layers): the queue is
\* replaced by the `remaining` deque, which is created without a maxlen.
reprocess_update(now) ==
    /\ processed' = processed_reactions(pending_reactions, now)
    /\ pending_reactions' = remaining_reactions(pending_reactions, now)
    /\ pending_maxlen' = FALSE

-----------------------------------------------------------------------------
(* Prediction cache (PredictionSystem)                                     *)
(*                                                                         *)
(* predict_future_state reads the cache key only to ask whether the key    *)
(* is in the cache and how old its entry is, and no result depends on the  *)
(* name of a key.  The cache is therefore recorded up to renaming of keys: *)
(* prediction_cache[ts] is the number of entries whose result carries the  *)
(* timestamp ts.  A call names its key by the timestamp of the key's entry *)
(* (`slot`), or NoEntry when the key is not in the cache.                  *)

PredictionCacheCap == 100      \* len(self.prediction_cache) < 100
CacheValidFor == 5             \* current_time - timestamp < 5
CacheExpiry == 10              \* current_time - timestamp > 10
CacheKeepMax == 50             \* len(self.prediction_cache) > 50

NoEntry == 0 - 1
FillTimes == {0, 11}
CacheTimes == {0, 4, 5, 11}
TimeDomain == FillTimes \cup CacheTimes

EmptyCache == [ts \in TimeDomain |-> 0]

RECURSIVE SumCounts(_, _)
SumCounts(c, S) ==
    IF S = {} THEN 0
    ELSE LET x == CHOOSE y \in S : TRUE IN c[x] + SumCounts(c, S \ {x})

\* len(self.prediction_cache)
CacheSize(c) == SumCounts(c, DOMAIN c)

\* the keys whose entry is older than 10 steps are deleted
remove_expired(c, now) ==
    [ts \in DOMAIN c |-> IF now - ts > CacheExpiry THEN 0 ELSE c[ts]]

\* sorted by timestamp, the first k entries are deleted
RECURSIVE remove_oldest(_, _)
remove_oldest(c, k) ==
    IF k <= 0 \/ CacheSize(c) = 0 THEN c
    ELSE LET oldest == CHOOSE ts \in DOMAIN c :
                          /\ c[ts] > 0
                          /\ \A u \in DOMAIN c : c[u] > 0 => ts <= u
             n == Min(k, c[oldest])
         IN remove_oldest([c EXCEPT ![oldest] = @ - n], k - n)

\* a cleanup that deletes the oldest half only
cleanup_without_expiry(c, now) ==
    IF CacheSize(c) > CacheKeepMax THEN remove_oldest(c, CacheSize(c) \div 2) ELSE c

\* a cleanup that deletes the oldest half only above the cap of 100
cleanup_over_cap(c, now) ==
    LET kept == remove_expired(c, now)
    IN IF CacheSize(kept) > PredictionCacheCap
       THEN remove_oldest(kept, CacheSize(kept) \div 2)
       ELSE kept

\* _cleanup_prediction_cache(current_time)
cleanup_prediction_cache(c, now) ==
    LET kept == remove_expired(c, now)
    IN IF CacheSize(kept) > CacheKeepMax
       THEN remove_oldest(kept, CacheSize(kept) \div 2)
       ELSE kept

\* a cache-hit test that still accepts an entry 5 steps old
cache_hit_inclusive(slot, now) == slot # NoEntry /\ now - slot <= CacheValidFor

\* the cache-hit test of predict_future_state
cache_hit(slot, now) == slot # NoEntry /\ now - slot < CacheValidFor

\* a store that never cleans
never_cleans(c) == FALSE

\* whether storing a result has to clean the cache first
needs_cleanup(c) == ~(CacheSize(c) < PredictionCacheCap)

\* self.prediction_cache[cache_key] = result, for a key whose entry (if any)
\* has timestamp `slot`
store_result(c, slot, now) ==
    IF slot = NoEntry THEN [c EXCEPT ![now] = @ + 1]
    ELSE [[c EXCEPT ![slot] = @ - 1] EXCEPT ![now] = @ + 1]

\* The caches that the tail of predict_future_state (lines 93-99) can leave.
\* When the cleanup deletes only part of the entries that share the called
\* key's timestamp, the dictionary order decides whether the key's own entry
\* is among them; both outcomes are kept.
caches_after_store(c, slot, now) ==
    IF ~needs_cleanup(c) THEN {store_result(c, slot, now)}
    ELSE LET cleaned == cleanup_prediction_cache(c, now)
         IN IF slot = NoEntry THEN {store_result(cleaned, NoEntry, now)}
            ELSE {store_result(cleaned, slot, now) : x \in {1} \cap 1..cleaned[slot]}
                 \cup {store_result(cleaned, NoEntry, now) :
                          x \in {1} \cap 1..(c[slot] - cleaned[slot])}

DistinctCap == PredictionCacheCap + 1

\* predict_future_state(target_object_id, perceived_objects, steps_ahead, current_time)
\* `present` is target_object_id in perceived_objects.
predict_future_state(slot, present, now) ==
    IF cache_hit(slot, now)
    THEN /\ prediction' = [kind |-> "cached", timestamp |-> slot, now |-> now,
                           slot |-> slot, present |-> present, cleaned |-> FALSE,
                           key_after |-> slot]
         /\ UNCHANGED <<prediction_cache, distinct_predictions>>
    ELSE IF ~present
    THEN /\ prediction' = [kind |-> "neutral", timestamp |-> now, now |-> now,
                           slot |-> slot, present |-> present, cleaned |-> FALSE,
                           key_after |-> slot]
         /\ UNCHANGED <<prediction_cache, distinct_predictions>>
    ELSE /\ prediction_cache' \in caches_after_store(prediction_cache, slot, now)
         /\ prediction' = [kind |-> "computed", timestamp |-> now, now |-> now,
                           slot |-> slot, present |-> present,
                           cleaned |-> needs_cleanup(prediction_cache),
                           key_after |-> now]
         /\ distinct_predictions' =
                IF slot = NoEntry THEN Min(distinct_predictions + 1, DistinctCap)
                ELSE distinct_predictions

CacheSlots(c) == {NoEntry} \cup {ts \in DOMAIN c : c[ts] > 0}

-----------------------------------------------------------------------------
(* Perceived objects (ObjectInfo) *)

\* The objects a caller hands to the engine: the depleting water of
\* create_survival_scenario_objects, the tool and the danger of
\* create_simple_world_objects, and an object of a type that is none of the
\* survival types.
ObjectCatalogue ==
    [water_critical |->
        [type |-> "water", properties |-> [purity |-> 60, quantity |-> 20],
         current_value |-> 20 * SCALE,
         meaning_values |-> [physical |-> 4000, base |-> 10000, core |-> 3000,
                             upper |-> 1000]],
     tool_1 |->
        [type |-> "tool", properties |-> [efficiency |-> 60, durability |-> 80],
         current_value |-> 60 * SCALE,
         meaning_values |-> [physical |-> 3000, base |-> 4000, core |-> 6000,
                             upper |-> 8000]],
     threat_1 |->
        [type |-> "danger", properties |-> [danger_level |-> 70, distance |-> 10],
         current_value |-> 70 * SCALE,
         meaning_values |-> [physical |-> 9000, base |-> 9000, core |-> 4000,
                             upper |-> 2000]],
     idea_1 |->
        [type |-> "abstract", properties |-> [x \in {} |-> 0],
         current_value |-> 50 * SCALE,
         meaning_values |-> [physical |-> 0, base |-> 1000, core |-> 5000,
                             upper |-> 9000]]]

ObjIds == {"water_critical", "idea_1"}

\* survival_types.get(self.type, 0.3)
survival_types(type) ==
    CASE type = "food"     -> 10000
      [] type = "water"    -> 10000
      [] type = "shelter"  -> 9000
      [] type = "fire"     -> 8000
      [] type = "tool"     -> 7000
      [] type = "weapon"   -> 8000
      [] type = "medicine" -> 9000
      [] type = "obstacle" -> 4000
      [] type = "threat"   -> 9000
      [] type = "danger"   -> 9000
      [] type = "resource" -> 5000
      [] OTHER             -> 3000

\* ObjectInfo.calculate_survival_relevance; property values are plain numbers
calculate_survival_relevance(obj) ==
    LET props == obj.properties
        has(k) == k \in DOMAIN props
        r0 == survival_types(obj.type)
        r1 == r0 + (IF has("danger_level")
                    THEN Min((props["danger_level"] * SCALE * 4) \div 10, 3000) ELSE 0)
        r2 == r1 + (IF has("nutritional_value")
                    THEN Min((props["nutritional_value"] * SCALE) \div 100, 2000) ELSE 0)
        r3 == r2 + (IF has("durability") /\ obj.type = "tool"
                    THEN Min((props["durability"] * SCALE) \div 200, 1000) ELSE 0)
        r4 == r3 + (IF has("temperature") /\ obj.type = "fire"
                    THEN Min((props["temperature"] * SCALE) \div 1000, 1500) ELSE 0)
    IN Min(r4, SCALE)

survival_relevance(id) == calculate_survival_relevance(ObjectCatalogue[id])

\* the mean survival relevance of the perceived objects, 0 when there are none
survival_urgency(perceived) ==
    IF perceived = {} THEN 0
    ELSE SumSeq([i \in 1..Cardinality(perceived) |->
                    survival_relevance(SetToSeq(perceived)[i])])
         \div Cardinality(perceived)

-----------------------------------------------------------------------------
(* Structural elements (StructuralState) *)

ElemIds == {"water_need", "concept"}

\* `obj_info.type in element_id`
type_in_id(type, element_id) == type = "water" /\ element_id = "water_need"

\* stability = 1.0 / self.layer_mobility[layer]
default_stability(layer) == (SCALE * SCALE) \div layer_mobility(layer)

\* StructuralState(layer=layer, connections={}, stability=stability)
EmptyDict == [x \in {} |-> 0]

new_element(layer) ==
    [layer |-> layer, connections |-> EmptyDict, activation |-> 0,
     stability |-> default_stability(layer), kappa |-> EmptyDict]

EmptyLayers == [l \in Layers |-> EmptyDict]

\* the number of elements of all layers
ElementCount(ls) == SumSeq([i \in 1..4 |-> Cardinality(DOMAIN ls[LayerType[i]])])

\* dict update d[k] = v
Put(d, k, v) == [x \in DOMAIN d \cup {k} |-> IF x = k THEN v ELSE d[x]]

\* del d[k] for every k of S
Without(d, S) == [x \in DOMAIN d \ S |-> d[x]]

\* the sum of f(k) over the keys of a set
SumOver(S, f(_)) == SumSeq([i \in 1..Cardinality(S) |-> f(SetToSeq(S)[i])])

-----------------------------------------------------------------------------
(* Meaning pressure (MeaningPressureProcessor) *)

E_MAX == 10 * SCALE
SimilarityCacheLimit == 1000

\* random.uniform(-0.2, 0.2): the two ends of the interval
RandomFactors == {0 - 2000, 2000}

\* the similarity computed on a cache miss, with the random draw rf
fresh_similarity(obj_id, element_id, layer, rf) ==
    LET obj == ObjectCatalogue[obj_id]
        base_similarity == 5000
        type_bonus == IF type_in_id(obj.type, element_id) THEN 3000 ELSE 0
        survival_modifier ==
            (Mul(survival_relevance(obj_id), get_survival_weight(layer)) * 2) \div 10
        property_similarity == IF DOMAIN obj.properties # {} THEN 1000 ELSE 0
    IN Min(SCALE, Max(0, base_similarity + type_bonus + survival_modifier
                         + property_similarity + rf))

\* the cache keys calculate_total_pressure asks for
similarity_keys(obj_id, ls) ==
    {k \in {obj_id} \X ElemIds \X Layers :
        k[2] \in DOMAIN ls[k[3]] /\ ls[k[3]][k[2]].layer = k[3]}

\* calculate_enhanced_similarity: the cached value, or a fresh one
enhanced_similarity(cache, draws, key) ==
    IF key \in DOMAIN cache THEN cache[key]
    ELSE fresh_similarity(key[1], key[2], key[3], draws[key])

\* the similarity cache after the calls of one calculate_total_pressure
cache_after(cache, draws, keys) ==
    IF Cardinality(DOMAIN cache) + Cardinality(keys \ DOMAIN cache)
          <= SimilarityCacheLimit
    THEN [k \in DOMAIN cache \cup keys |-> enhanced_similarity(cache, draws, k)]
    ELSE cache

\* the value of enhanced_pressure before it is clipped at 0
raw_layer_pressure(obj_id, layer, existing, cache, draws) ==
    LET obj == ObjectCatalogue[obj_id]
        phi == Mul(obj.meaning_values[layer], survival_relevance(obj_id))
        mine == {e \in DOMAIN existing : existing[e].layer = layer}
        sim(e) == enhanced_similarity(cache, draws, <<obj_id, e, layer>>)
        res(e) == Mul(SCALE - sim(e), existing[e].activation)
        inter(e) == (Mul(sim(e), existing[e].stability) * 2) \div 10
        alignment_resistance == SumOver(mine, res)
        structural_interaction == SumOver(mine, inter)
    IN Mul(phi, SCALE + (3 * structural_interaction) \div 10)
       - alignment_resistance \div 10
       + (4 * structural_interaction) \div 10

\* calculate_layer_meaning_pressure
calculate_layer_meaning_pressure(obj_id, layer, existing, cache, draws) ==
    Max(0, raw_layer_pressure(obj_id, layer, existing, cache, draws))

\* the total_pressure computed by calculate_total_pressure
total_pressure(obj_id, ls, cache, draws) ==
    LET lp(l) == Mul(calculate_layer_meaning_pressure(obj_id, l, ls[l], cache, draws),
                     layer_mobility(l))
    IN SumOver(Layers, lp)

\* the accumulation without the cap of 10.0
add_pressure_uncapped(e, pressure) == e + (pressure * 3) \div 10

\* add_meaning_pressure: self.E = min(10.0, self.E + pressure * 0.3)
add_meaning_pressure(e, pressure) == Min(E_MAX, e + (pressure * 3) \div 10)

\* a decay whose rate is above one
decay_growing(e) == Max(0, (e * 105) \div 100)

\* natural_decay with the default decay_rate 0.95
natural_decay(e) == Max(0, (e * 95) \div 100)

-----------------------------------------------------------------------------
(* Alignment (AlignmentProcessor) *)

KappaDefault == 1000      \* defaultdict(lambda: 0.1)
KappaFloor == 500         \* 0.05

\* self.global_kappa[key] *= 0.995
kappa_decay(k) == (k * 995) \div 1000

\* the decay of one entry without the floor
decay_without_floor(k) == (k * 995) \div 1000

\* one entry of _update_global_kappa: the decay, then the floor
update_kappa_entry(k) ==
    IF kappa_decay(k) < KappaFloor THEN KappaFloor ELSE kappa_decay(k)

\* _update_global_kappa
update_global_kappa(kappa) == [key \in DOMAIN kappa |-> update_kappa_entry(kappa[key])]

\* the kappa_val read for an element: state.kappa[element_id] when the element
\* carries one, else self.global_kappa[element_id] (0.1 for a new key)
kappa_val(kappa, element_id, state) ==
    IF element_id \in DOMAIN state.kappa THEN state.kappa[element_id]
    ELSE IF element_id \in DOMAIN kappa THEN kappa[element_id]
    ELSE KappaDefault

\* alignment_flow = (G0 + g * kappa_val) * current_E * layer_mobility
alignment_flow(layer, kv, current_E) ==
    Mul(5000 + (7 * kv) \div 10, Mul(current_E, layer_mobility(layer)))

\* the activation update without the cap of 1.0
activation_uncapped(activation, flow) == activation + flow \div 10

\* state.activation = min(1.0, state.activation + alignment_flow * 0.1)
aligned_activation(activation, flow) == Min(SCALE, activation + flow \div 10)

\* _process_layer_alignment: the elements of one layer after the step
process_layer_alignment(layer, elements, kappa, current_E) ==
    [e \in DOMAIN elements |->
        [elements[e] EXCEPT !.activation =
            aligned_activation(@, alignment_flow(layer,
                                  kappa_val(kappa, e, elements[e]), current_E))]]

\* the keys the defaultdict creates while the layers are read
kappa_touched(ls) ==
    {e \in ElemIds : \E l \in Layers :
        e \in DOMAIN ls[l] /\ e \notin DOMAIN ls[l][e].kappa}

\* AlignmentProcessor.process_alignment_step: the new layers ...
aligned_layers(ls, kappa, current_E) ==
    [l \in Layers |-> process_layer_alignment(l, ls[l], kappa, current_E)]

\* ... and the new global kappa table
aligned_kappa(ls, kappa) ==
    update_global_kappa(
        [key \in DOMAIN kappa \cup kappa_touched(ls) |->
            IF key \in DOMAIN kappa THEN kappa[key] ELSE KappaDefault])

\* layer_resistance of process_alignment_step_with_heat_loss
layer_resistance(layer) ==
    CASE layer = "physical" -> 1000
      [] layer = "base"     -> 3000
      [] layer = "core"     -> 5000
      [] layer = "upper"    -> 2000

\* the flow j of one element in process_alignment_step_with_heat_loss
thermal_flow(layer, state, kappa, element_id) ==
    LET k == IF element_id \in DOMAIN kappa THEN kappa[element_id] ELSE KappaDefault
        G0 == (2 * layer_mobility(layer)) \div 10
        pressure == Mul(state.activation, 2 * SCALE - state.stability)
    IN Mul(G0 + (3 * k) \div 10, pressure)

\* heat_loss = rho * j ** 2 of one element
heat_loss(layer, state, kappa, element_id) ==
    LET j == thermal_flow(layer, state, kappa, element_id)
    IN Mul(layer_resistance(layer), Mul(j, j))

\* the heat process_alignment_step_with_heat_loss adds to total_heat_loss
step_heat_loss(ls, kappa) ==
    LET per_layer(l) ==
            LET per_elem(e) == heat_loss(l, ls[l][e], kappa, e)
            IN SumOver(DOMAIN ls[l], per_elem)
    IN SumOver(Layers, per_layer)

-----------------------------------------------------------------------------
(* Leap (LeapProcessor) *)

\* floor of the square root, by bisection
RECURSIVE IsqrtIn(_, _, _)
IsqrtIn(n, lo, hi) ==
    IF lo >= hi THEN lo
    ELSE LET mid == (lo + hi + 1) \div 2
         IN IF mid * mid <= n THEN IsqrtIn(n, mid, hi) ELSE IsqrtIn(n, lo, mid - 1)
Isqrt(n) == IF n <= 0 THEN 0 ELSE IsqrtIn(n, 0, Min(n, 40000))

\* np.mean and np.std of the values of a table
mean_of(vals, S) == SumOver(S, LAMBDA k : vals[k]) \div Cardinality(S)
std_of(vals, S) ==
    LET m == mean_of(vals, S)
    IN Isqrt(SumOver(S, LAMBDA k : (vals[k] - m) * (vals[k] - m)) \div Cardinality(S))

\* product of a large and a small fixed-point value, kept inside 32 bits
MulBig(a, b) == ((a \div 100) * b) \div 100

\* math.exp on fixed-point values: e^n from a table, the fractional part by
\* its Taylor series; arguments of 6 and more give a value (e^6) that every
\* use below saturates on.
ExpInt(n) ==
    CASE n = 0 -> 10000 [] n = 1 -> 27183 [] n = 2 -> 73891 [] n = 3 -> 200855
      [] n = 4 -> 545982 [] n = 5 -> 1484132 [] OTHER -> 4034288
ExpFrac(f) ==
    LET f2 == Mul(f, f)
        f3 == Mul(f2, f)
        f4 == Mul(f3, f)
        f5 == Mul(f4, f)
    IN SCALE + f + f2 \div 2 + f3 \div 6 + f4 \div 24 + f5 \div 120
ExpSat == 6 * SCALE
ExpFP(x) ==
    IF x >= ExpSat THEN ExpInt(6)
    ELSE IF x < 0 THEN (SCALE * SCALE) \div MulBig(ExpInt((0 - x) \div SCALE),
                                                   ExpFrac((0 - x) % SCALE))
    ELSE MulBig(ExpInt(x \div SCALE), ExpFrac(x % SCALE))

\* a * b for b >= 1, where only min(a * b, 6) is used afterwards
SatMul(a, b) == IF a >= ExpSat THEN a ELSE Mul(a, b)

theta_base == 8000
h0 == 1000
gamma == 5000

\* the mean and the spread of the kappa values check_leap_condition uses
leap_mean_kappa(kappa) ==
    IF DOMAIN kappa = {} THEN KappaDefault ELSE mean_of(kappa, DOMAIN kappa)
leap_std_kappa(kappa) ==
    IF Cardinality(DOMAIN kappa) > 1 THEN std_of(kappa, DOMAIN kappa) ELSE 500

\* threshold = theta_base * (1 + kappa_fluctuation) * max(0.2, survival_modifier),
\* u being the draw random.uniform(-std_kappa, std_kappa)
leap_threshold(kappa, urgency, u) ==
    LET kappa_fluctuation == leap_mean_kappa(kappa) + u \div 2
        survival_modifier == SCALE - (6 * urgency) \div 10
    IN Mul(Mul(theta_base, SCALE + kappa_fluctuation), Max(2000, survival_modifier))

\* normalized_prob of check_leap_condition
normalized_prob(current_E, threshold, urgency) ==
    LET survival_boost == SCALE + (25 * urgency) \div 10
        raw_prob == SatMul(ExpFP(((current_E - threshold) * SCALE) \div gamma)
                              \div (SCALE \div h0),
                           survival_boost)
    IN (2 * SCALE * SCALE) \div (SCALE + (SCALE * SCALE) \div ExpFP(raw_prob)) - SCALE

\* the probability without the clamp to [0.05, 0.95]
probability_unclamped(current_E, threshold, urgency) ==
    normalized_prob(current_E, threshold, urgency)

\* the probability with which check_leap_condition returns True on the
\* current_E > threshold path
leap_probability(current_E, threshold, urgency) ==
    Min(Max(normalized_prob(current_E, threshold, urgency), 500), 9500)

\* the draws random.uniform(-std, std) of the model: the two ends
FluctuationDraws(kappa) == {0 - leap_std_kappa(kappa), leap_std_kappa(kappa)}

\* a check that draws against the probability without comparing E with the
\* threshold first
check_leap_without_threshold(current_E, kappa, perceived, u) ==
    LET urgency == survival_urgency(perceived)
        threshold == leap_threshold(kappa, urgency, u)
        p == leap_probability(current_E, threshold, urgency)
    IN [E |-> current_E, threshold |-> threshold, over |-> current_E > threshold,
        probability |-> p, can_fire |-> p > 0, can_hold |-> p < SCALE]

\* check_leap_condition(current_E, global_kappa, perceived_objects) with the
\* draw u: the record of what it computed; `can_fire` and `can_hold` tell which
\* return values the final random.random() < probability allows
check_leap_condition(current_E, kappa, perceived, u) ==
    LET urgency == survival_urgency(perceived)
        threshold == leap_threshold(kappa, urgency, u)
        over == current_E > threshold
        p == IF over THEN leap_probability(current_E, threshold, urgency) ELSE 0
    IN [E |-> current_E, threshold |-> threshold, over |-> over,
        probability |-> p, can_fire |-> over /\ p > 0, can_hold |-> ~over \/ p < SCALE]

NoLeapCheck == [E |-> 0, threshold |-> 0, over |-> FALSE, probability |-> 0,
                can_fire |-> FALSE, can_hold |-> TRUE]

\* the layers execute_leap tries, in order
leap_order(urgency) ==
    IF urgency > 6000 THEN <<"physical", "base", "core", "upper">>
    ELSE <<"upper", "core", "base">>

\* random.uniform(0.3, 0.8): the two ends of the interval
ConnectionStrengths == {3000, 8000}

\* _create_emergent_connection: the layer dictionaries it can leave
create_emergent_connection(elements) ==
    IF Cardinality(DOMAIN elements) >= 2
    THEN {[e \in DOMAIN elements |->
             IF e = pair[1] THEN [elements[e] EXCEPT !.connections = Put(@, pair[2], w)]
             ELSE IF e = pair[2]
             THEN [elements[e] EXCEPT !.connections = Put(@, pair[1], w)]
             ELSE elements[e]] :
          pair \in {q \in (DOMAIN elements) \X (DOMAIN elements) : q[1] # q[2]},
          w \in ConnectionStrengths}
    ELSE {elements}

\* the probability of success of _attempt_layer_leap
layer_leap_probability(layer, survival_enhancement) ==
    Min(layer_mobility(layer)
        + Mul(survival_enhancement, get_survival_weight(layer)) \div 2, 9500)

\* the loop going on after every first affected layer, survival-driven or not
leap_continues_always(survival_driven, affected) == Len(affected) < 2

\* whether the loop of execute_leap goes on after a layer was affected
leap_continues(survival_driven, affected) == survival_driven /\ Len(affected) < 2

\* The loop of execute_leap over order[i..]: the set of <<layers, affected>>
\* it can end with.  Every attempt can succeed and can fail, its probability
\* being strictly between 0 and 1.
RECURSIVE leap_runs(_, _, _, _, _)
leap_runs(order, i, ls, affected, survival_driven) ==
    IF i > Len(order) THEN {<<ls, affected>>}
    ELSE LET layer == order[i]
             hit == Append(affected, layer)
         IN leap_runs(order, i + 1, ls, affected, survival_driven)
            \cup UNION {IF leap_continues(survival_driven, hit)
                        THEN leap_runs(order, i + 1, [ls EXCEPT ![layer] = els], hit,
                                       survival_driven)
                        ELSE {<<[ls EXCEPT ![layer] = els], hit>>} :
                        els \in create_emergent_connection(ls[layer])}

\* pressure_reduction = 0.3 + survival_urgency * 0.4;
\* new_E = max(0.0, current_E * (1.0 - pressure_reduction))
leap_new_E(current_E, urgency) ==
    Max(0, Mul(current_E, SCALE - (3000 + (4 * urgency) \div 10)))

\* LeapProcessor.execute_leap: the set of possible <<layers, LeapResult, new_E>>
execute_leap(ls, perceived, current_E) ==
    LET urgency == survival_urgency(perceived)
        survival_driven == urgency > 6000
    IN {<<run[1],
          [leap_type |-> IF survival_driven THEN "survival_driven_leap"
                         ELSE "alignment_reorganization",
           affected_layers |-> run[2], survival_driven |-> survival_driven],
          leap_new_E(current_E, urgency)>> :
        run \in leap_runs(leap_order(urgency), 1, ls, <<>>, survival_driven)}

NoLeap == [leap_type |-> "none", affected_layers |-> <<>>, survival_driven |-> FALSE]

-----------------------------------------------------------------------------
(* Decision (DecisionSystem) *)

DecisionHistoryMax == 100

\* survival_actions.get(action, 0.2)
survival_actions(action) ==
    CASE action = "eat"          -> 10000
      [] action = "drink"        -> 10000
      [] action = "seek_shelter" -> 9000
      [] action = "craft"        -> 7000
      [] action = "gather"       -> 6000
      [] action = "explore"      -> 4000
      [] action = "rest"         -> 5000
      [] action = "store"        -> 5000
      [] action = "observe"      -> 3000
      [] action = "approach"     -> 4000
      [] action = "avoid"        -> 6000
      [] action = "investigate"  -> 3000
      [] action = "use"          -> 5000
      [] OTHER                   -> 2000

\* the share of perceived objects with survival_relevance > 0.7
current_survival_need(perceived) ==
    IF perceived = {} THEN 0
    ELSE (Cardinality({o \in perceived : survival_relevance(o) > 7000}) * SCALE)
         \div Cardinality(perceived)

\* np.mean of the activations of a layer, 0.0 for an empty layer
layer_activation(elements) ==
    IF DOMAIN elements = {} THEN 0
    ELSE SumOver(DOMAIN elements, LAMBDA e : elements[e].activation)
         \div Cardinality(DOMAIN elements)

\* _evaluate_action
evaluate_action(action, ls, kappa, perceived) ==
    LET base_score == 5000
        kappa_bonus ==
            ((IF action \in DOMAIN kappa THEN kappa[action] ELSE KappaDefault) * 4) \div 10
        need == current_survival_need(perceived)
        survival_bonus == (Mul(survival_actions(action), need) * 8) \div 10
        ev(l) == (Mul(layer_activation(ls[l]),
                      Mul(layer_mobility(l), SCALE + Mul(get_survival_weight(l), need)))
                  * 2) \div 10
        layer_evaluation == SumOver(Layers, ev)
    IN Min(base_score + kappa_bonus + survival_bonus + layer_evaluation, 2 * SCALE)

\* max(action_scores, key=action_scores.get): the first action of the list
\* whose score is maximal
best_action(actions, score(_)) ==
    LET best == CHOOSE i \in 1..Len(actions) :
                   /\ \A j \in 1..Len(actions) : score(actions[j]) <= score(actions[i])
                   /\ \A j \in 1..(i - 1) : score(actions[j]) < score(actions[i])
    IN actions[best]

\* the actions make_decision can return: any action when it explores, the
\* best one when it does not
chosen_actions(actions, exploration_mode, score(_)) ==
    IF exploration_mode THEN {actions[i] : i \in 1..Len(actions)}
    ELSE {best_action(actions, score)}

\* deque(maxlen=100).append
history_append(h, x) ==
    IF Len(h) >= DecisionHistoryMax THEN Append(Tail(h), x) ELSE Append(h, x)

\* a decision that picks any candidate whether it explores or not
decides_at_random(actions, ls, kappa, perceived, current_E, temp) ==
    LET score(a) == evaluate_action(a, ls, kappa, perceived)
        info(a, mode) ==
            [chosen_action |-> a,
             scores |-> [x \in {actions[i] : i \in 1..Len(actions)} |-> score(x)],
             exploration_mode |-> mode, E_level |-> current_E, T_level |-> temp]
    IN UNION {{<<a, info(a, mode)>> : a \in chosen_actions(actions, TRUE, score)} :
              mode \in BOOLEAN}

\* DecisionSystem.make_decision for a non-empty list: the possible
\* <<chosen_action, DecisionInfo>>
make_decision(actions, ls, kappa, perceived, current_E, temp) ==
    LET score(a) == evaluate_action(a, ls, kappa, perceived)
        info(a, mode) ==
            [chosen_action |-> a,
             scores |-> [x \in {actions[i] : i \in 1..Len(actions)} |-> score(x)],
             exploration_mode |-> mode, E_level |-> current_E, T_level |-> temp]
    IN UNION {{<<a, info(a, mode)>> : a \in chosen_actions(actions, mode, score)} :
              mode \in BOOLEAN}

\* update_temperature: T = 0.3 + min(1.0, current_E / 5.0) * 0.7
temperature(current_E) == 3000 + (Min(SCALE, current_E \div 5) * 7) \div 10

T_INITIAL == SCALE

-----------------------------------------------------------------------------
(* Maintenance (MaintenanceManager, SSDCoreEngine.system_maintenance) *)

\* any(should_perform_maintenance(current_time).values())
should_perform_maintenance(now, last) ==
    now - last > 100 \/ now % 50 = 0 \/ now % 20 = 0

\* MeaningPressureProcessor.cleanup_cache(max_size=500) keeps the newest
\* max_size // 2 entries of a cache of more than max_size entries; the model's
\* cache never holds that many
cleanup_cache(cache) == IF Cardinality(DOMAIN cache) > 500 THEN EmptyDict ELSE cache

\* the first half of the loop body of _auto_stabilize_structure
stabilized(state) ==
    IF state.activation > 9000
    THEN [state EXCEPT !.stability = Min(SCALE, @ + 1000),
                       !.activation = (@ * 9) \div 10]
    ELSE state

\* a pruning that does not look at the connections
removable_inactive(elements) ==
    {e \in DOMAIN elements : stabilized(elements[e]).activation < 500}

\* the elements _auto_stabilize_structure may delete (each with probability 0.1)
removable(elements) ==
    {e \in DOMAIN elements :
        stabilized(elements[e]).activation < 500
        /\ DOMAIN stabilized(elements[e]).connections = {}}

\* _auto_stabilize_structure: the layer tables it can leave
auto_stabilize_structure(ls) ==
    {[l \in Layers |->
        Without([e \in DOMAIN ls[l] |-> stabilized(ls[l][e])], gone[l])] :
     gone \in {g \in [Layers -> SUBSET ElemIds] :
                 \A l \in Layers : g[l] \subseteq removable(ls[l])}}

-----------------------------------------------------------------------------
(* The engine (SSDCoreEngine) *)

MaxCalls == 3          \* direct API calls per run
MaxTime == 1           \* step() calls per run
MaxElements == 2       \* structural elements per run

PressureInputs == {0, 40 * SCALE}
PerceptionInputs == {<<>>, <<"water_critical">>, <<"water_critical", "idea_1">>}
ElementInputs == {<<"base", "water_need">>, <<"upper", "concept">>}
ActionInputs == {<<>>, <<"observe", "drink">>}

Op(name) == [op |-> name]

-----------------------------------------------------------------------------
(* Territories (TerritoryProcessor) *)

Npcs == {"npc_bob", "npc_alice"}
Locations == {<<0, 0>>, <<3, 4>>, <<30, 40>>}

territory_claim_threshold == 3000     \* 0.3
innerness_learning_rate == 2000       \* 0.2

\* experience_weights.get(experience_type, 0.3)
experience_weights(type) ==
    CASE type = "safe_rest"          -> 8000
      [] type = "successful_forage"  -> 6000
      [] type = "social_cooperation" -> 7000
      [] type = "water_access"       -> 5000
      [] type = "territory_defense"  -> 9000
      [] type = "hostile_encounter"  -> 0 - 8000
      [] type = "resource_theft"     -> 0 - 9000
      [] OTHER                       -> 3000

\* f"loc_{location[0]:.1f}_{location[1]:.1f}": the coordinates in tenths
location_id(location) == <<"loc", location[1] * 10, location[2] * 10>>

\* boundary.get_boundary_strength(object_id): 0.0 for an unknown object
get_boundary_strength(strengths, npc, object_id) ==
    IF object_id \in DOMAIN strengths[npc] THEN strengths[npc][object_id] ELSE 0

\* _update_innerness: the new strength of the location
new_strength(current_strength, valence, type) ==
    Max(0 - SCALE,
        Min(SCALE, current_strength
                     + Mul(Mul(innerness_learning_rate, valence), experience_weights(type))))

\* _count_nearby_allies: the other NPCs that are inner objects of npc; an NPC id
\* enters a boundary only as an inner object (_form_collective_boundary)
count_nearby_allies(strengths, npc) ==
    Cardinality({other \in DOMAIN strengths \ {npc} :
                    <<"npc", other>> \in DOMAIN strengths[npc]})

\* _calculate_safety_feeling
calculate_safety_feeling(place_familiarity, nearby_allies, resource_accessibility) ==
    Min(SCALE, (Max(0, place_familiarity) * 4) \div 10 + Min(3000, nearby_allies * 1000)
                 + (resource_accessibility * 3) \div 10)

\* random.uniform(0.2, 0.8) of _evaluate_resource_access: the two ends
ResourceDraws == {2000, 8000}

\* radius = 8 + int(safety_feeling * 8)
territory_radius(safety_feeling) == 8 + (safety_feeling * 8) \div SCALE

\* TerritoryInfo.contains(position), with the distance squared
contains(territory, position) ==
    (position[1] - territory.center[1]) * (position[1] - territory.center[1])
      + (position[2] - territory.center[2]) * (position[2] - territory.center[2])
        <= territory.radius * territory.radius

NoInteraction ==
    [npc_id |-> "", target_location |-> <<0, 0>>, is_own_territory |-> FALSE,
     is_others_territory |-> FALSE, territory_owner |-> "None",
     recommended_action |-> "neutral", raised |-> "none"]

\* check_territorial_interaction: the loop over self.territories.items() from
\* entry i on; it breaks at the first territory that contains the location.
\* intrusion_level > 0.7 is distance < 0.3 * radius. The boundary of npc is
\* looked up (self.subjective_boundaries[npc_id]) in another NPC's territory.
RECURSIVE territorial_interaction(_, _, _, _, _)
territorial_interaction(ts, i, npc, target, strengths) ==
    IF i > Len(ts) THEN NoInteraction
    ELSE IF ~contains(ts[i], target)
    THEN territorial_interaction(ts, i + 1, npc, target, strengths)
    ELSE IF npc \in ts[i].members
    THEN [NoInteraction EXCEPT !.is_own_territory = TRUE,
                               !.recommended_action = "safe_stay"]
    ELSE IF npc \notin DOMAIN strengths
    THEN [NoInteraction EXCEPT !.raised = "KeyError"]
    ELSE LET dx == target[1] - ts[i].center[1]
             dy == target[2] - ts[i].center[2]
             deep == 100 * (dx * dx + dy * dy) < 9 * ts[i].radius * ts[i].radius
         IN [NoInteraction EXCEPT
                !.is_others_territory = TRUE,
                !.territory_owner = ts[i].owner_npc,
                !.recommended_action =
                    IF <<"npc", ts[i].owner_npc>> \in DOMAIN strengths[npc]
                    THEN "friendly_approach"
                    ELSE IF deep THEN "retreat" ELSE "cautious_approach"]

TerritoryInit ==
    /\ territories = <<>>
    /\ npc_territories = [n \in {} |-> <<>>]
    /\ boundary_strength = [n \in {} |-> <<>>]
    /\ interaction = NoInteraction

-----------------------------------------------------------------------------
(* Chaotic leaps (ChaoticLeapProcessor)                                   *)
(*                                                                         *)
(* chaos_seed is written and never read, and is left out.                  *)

PI == 31416                    \* np.pi
lyapunov_exponent == 3000      \* 0.3

Abs(a) == IF a < 0 THEN 0 - a ELSE a

\* sin on [0, pi/2] by its Taylor series up to the ninth power
SinTaylor(t) ==
    LET t2 == Mul(t, t)
        t3 == Mul(t2, t)
        t5 == Mul(t3, t2)
        t7 == MulBig(t5, t2)
        t9 == MulBig(t7, t2)
    IN t - t3 \div 6 + t5 \div 120 - t7 \div 5040 + t9 \div 362880

\* np.sin, np.cos and np.tanh on fixed-point values
SinFP(theta) ==
    LET t == theta % (2 * PI)
    IN IF t <= PI \div 2 THEN SinTaylor(t)
       ELSE IF t <= PI THEN SinTaylor(PI - t)
       ELSE IF t <= (3 * PI) \div 2 THEN 0 - SinTaylor(t - PI)
       ELSE 0 - SinTaylor(2 * PI - t)
CosFP(theta) == SinFP(theta + PI \div 2)
TanhFP(c) ==
    IF c >= 0 THEN SCALE - (2 * SCALE * SCALE) \div (ExpFP(2 * c) + SCALE)
    ELSE (2 * SCALE * SCALE) \div (ExpFP(0 - 2 * c) + SCALE) - SCALE

\* np.random.normal(0, 0.01, 3): the mean and one deviation to either side
PerturbationDraws == {<<0, 0, 0>>, <<100, 0 - 100, 100>>}

\* _update_strange_attractor: one Lorenz step of dt = 0.01 and the perturbation
update_strange_attractor(state, perturbation) ==
    LET x == state[1]
        y == state[2]
        z == state[3]
        dx == (10 * (y - x)) \div 100
        dy == (Mul(x, 28 * SCALE - z) - y) \div 100
        dz == (Mul(x, y) - (8 * z) \div 3) \div 100
    IN <<x + dx + perturbation[1], y + dy + perturbation[2], z + dz + perturbation[3]>>

\* _get_layer_leap_sensitivity
layer_leap_sensitivity(layer) ==
    CASE layer = "physical" -> 1000
      [] layer = "base"     -> 4000
      [] layer = "core"     -> 7000
      [] layer = "upper"    -> 9000
      [] OTHER              -> 5000

\* sin(chaos_x * pi) * exp(-chaos_y) + cos(chaos_y * pi) * tanh(chaos_x)
\*   + x * y * z / 10
nonlinear_coupling(meaning_pressure, alignment_resistance, state) ==
    LET chaos_x == meaning_pressure \div 10
        chaos_y == alignment_resistance \div 10
    IN Mul(SinFP(Mul(chaos_x, PI)), ExpFP(0 - chaos_y))
       + Mul(CosFP(Mul(chaos_y, PI)), TanhFP(chaos_x))
       + Mul(Mul(state[1], state[2]), state[3]) \div 10

\* calculate_leap_probability: the pair it returns, the attractor state it
\* leaves and the number of time steps it counted; u is the draw of
\* random.uniform(0.3, 1.7)
calculate_leap_probability(pressure, resistance, layer, state, perturbation, u) ==
    LET meaning_pressure == pressure
        alignment_resistance == resistance
    IN
    IF ~(meaning_pressure > Mul(alignment_resistance, 12000))
    THEN [leap_probability |-> 0, unpredictability |-> SCALE,
          state |-> state, steps |-> 0]
    ELSE LET state2 == update_strange_attractor(state, perturbation)
             chaos_factor ==
                 Mul(Abs(nonlinear_coupling(meaning_pressure, alignment_resistance,
                                            state2)),
                     layer_leap_sensitivity(layer))
         IN [leap_probability |-> Min(SCALE, Mul(chaos_factor, u)),
             unpredictability |-> SCALE - ExpFP(0 - Mul(lyapunov_exponent, chaos_factor)),
             state |-> state2, steps |-> 1]

\* the leap type read from abs(strange_attractor_state[0])
chaotic_leap_type(chaos_state) ==
    IF chaos_state < 5 * SCALE THEN "creative"
    ELSE IF chaos_state < 10 * SCALE THEN "transformative"
    ELSE IF chaos_state < 15 * SCALE THEN "emergent"
    ELSE "destructive"

\* the value execute_leap returns when no leap occurs (None)
NoLeapEvent ==
    [none |-> TRUE, leap_type |-> "", magnitude |-> 0, source_layer |-> "",
     target_layer |-> "", chaos_factor |-> 0, predictability |-> 0,
     energy_release |-> 0, structural_transformation |-> EmptyDict, timestamp |-> 0]

\* the draws of one execute_leap call: the perturbation of the attractor,
\* uniform(0.3, 1.7), random.random() of the leap test, uniform(0.5, 2.0),
\* uniform(-1.0, 1.0), the target layer (the source layer, or the layer
\* random.choice picked), and uniform(-0.5, 0.5)
LeapDraws ==
    [perturbation : PerturbationDraws, u : {3000, 17000},
     leap_draw : {0, 5000}, magnitude_draw : {5000, 20000},
     transformation_draw : {SCALE}, target : {"", "physical"},
     rescale : {0 - 5000, 5000}]

\* ChaoticLeapProcessor.execute_leap: the event it returns and the attractor
\* state, time step and history it leaves
chaotic_execute_leap(pressure, resistance, layer, states, state, steps, history, d) ==
    LET meaning_pressure == pressure
        alignment_state == resistance
        structural_states == states
        pr == calculate_leap_probability(meaning_pressure, alignment_state, layer,
                                         state, d.perturbation, d.u)
        chaos_state == Abs(pr.state[1])
        magnitude == Min(10 * SCALE,
                         Mul(Mul(meaning_pressure, pr.unpredictability),
                             d.magnitude_draw))
        event == [none |-> FALSE,
                  leap_type |-> chaotic_leap_type(chaos_state),
                  magnitude |-> magnitude,
                  source_layer |-> layer,
                  target_layer |-> IF d.target = "" THEN layer ELSE d.target,
                  chaos_factor |-> chaos_state,
                  predictability |-> SCALE - pr.unpredictability,
                  energy_release |-> MulBig(magnitude, magnitude) \div 10,
                  structural_transformation |->
                      [id \in {i \in DOMAIN structural_states :
                                  structural_states[i] = layer} |->
                          Mul(SinFP(MulBig(magnitude, PI \div 4)),
                              d.transformation_draw)],
                  timestamp |-> steps + pr.steps]
    IN IF d.leap_draw > pr.leap_probability
       THEN [event |-> NoLeapEvent, state |-> pr.state, steps |-> steps + pr.steps,
             history |-> history]
       ELSE [event |-> event,
             state |-> [i \in 1..3 |-> Mul(pr.state[i], SCALE + d.rescale)],
             steps |-> steps + pr.steps,
             history |-> Append(history, event)]

\* self.leap_history = [], self.strange_attractor_state = np.array([0.1, 0.1,
\* 0.1]), self.time_step = 0
ChaosInit ==
    /\ leap_history = <<>>
    /\ strange_attractor_state = <<1000, 1000, 1000>>
    /\ time_step = 0
    /\ leap_event = [called |-> FALSE]

EngineInit ==
    /\ E = 0
    /\ layers = EmptyLayers
    /\ global_kappa = EmptyDict
    /\ perceived_objects = {}
    /\ similarity_cache = EmptyDict
    /\ total_heat_loss = 0
    /\ decision_history = <<>>
    /\ last_cleanup = 0
    /\ current_time = 0
    /\ T = T_INITIAL
    /\ leap_check = NoLeapCheck
    /\ leap_result = NoLeap

ReactInit ==
    /\ pending_reactions = <<>>
    /\ pending_maxlen = TRUE
    /\ caller_time = 0
    /\ immediate = [action |-> "none"]
    /\ processed = <<>>

NoPrediction == [kind |-> "none", timestamp |-> 0, now |-> 0, slot |-> NoEntry,
                 present |-> FALSE, cleaned |-> FALSE, key_after |-> NoEntry]

CacheInit ==
    /\ prediction_cache = EmptyCache
    /\ distinct_predictions = 0
    /\ prediction = NoPrediction

Init ==
    /\ EngineInit
    /\ ReactInit
    /\ CacheInit
    /\ TerritoryInit
    /\ ChaosInit
    /\ calls = 0
    /\ last_op = Op("init")

\* the draws of random.uniform(-0.2, 0.2) for the similarities not yet cached
SimilarityDraws(keys, cache) == [keys \ DOMAIN cache -> RandomFactors]

\* SSDCoreEngine.add_structural_element(layer, element_id)
AddStructuralElement(layer, id) ==
    /\ calls < MaxCalls
    /\ ElementCount(layers) < MaxElements \/ id \in DOMAIN layers[layer]
    /\ layers' = [layers EXCEPT ![layer] = Put(@, id, new_element(layer))]
    /\ calls' = calls + 1
    /\ last_op' = Op("add_structural_element")
    /\ UNCHANGED <<territoryVars, chaosVars, E, global_kappa, perceived_objects, current_time, similarity_cache,
                   total_heat_loss, T, decision_history, last_cleanup, leap_check,
                   leap_result, reactVars, caller_time, cacheVars>>

\* SSDCoreEngine.perceive_object(obj_info)
PerceiveObject(obj_id) ==
    /\ calls < MaxCalls
    /\ \E draws \in SimilarityDraws(similarity_keys(obj_id, layers), similarity_cache) :
          /\ E' = add_meaning_pressure(E, total_pressure(obj_id, layers,
                                                         similarity_cache, draws))
          /\ similarity_cache' = cache_after(similarity_cache, draws,
                                             similarity_keys(obj_id, layers))
    /\ perceived_objects' = perceived_objects \cup {obj_id}
    /\ calls' = calls + 1
    /\ last_op' = Op("perceive_object")
    /\ UNCHANGED <<territoryVars, chaosVars, layers, global_kappa, current_time, total_heat_loss, T,
                   decision_history, last_cleanup, leap_check, leap_result,
                   reactVars, caller_time, cacheVars>>

\* MeaningPressureProcessor.add_meaning_pressure(pressure, source_id), pressure >= 0
AddMeaningPressure(pressure) ==
    /\ calls < MaxCalls
    /\ E' = add_meaning_pressure(E, pressure)
    /\ calls' = calls + 1
    /\ last_op' = Op("add_meaning_pressure")
    /\ UNCHANGED <<territoryVars, chaosVars, layers, global_kappa, perceived_objects, current_time,
                   similarity_cache, total_heat_loss, T, decision_history,
                   last_cleanup, leap_check, leap_result, reactVars, caller_time,
                   cacheVars>>

\* SSDCoreEngine.process_alignment_step(): the alignment, then natural_decay()
ProcessAlignmentStep ==
    /\ layers' = aligned_layers(layers, global_kappa, E)
    /\ global_kappa' = aligned_kappa(layers, global_kappa)
    /\ E' = natural_decay(E)
    /\ last_op' = Op("process_alignment_step")
    /\ UNCHANGED <<territoryVars, chaosVars, perceived_objects, current_time, similarity_cache, total_heat_loss,
                   T, decision_history, last_cleanup, leap_check, leap_result,
                   reactVars, caller_time, cacheVars>>

\* SSDCoreEngine.execute_leap()
ExecuteLeap ==
    /\ calls < MaxCalls
    /\ \E out \in execute_leap(layers, perceived_objects, E) :
          /\ layers' = out[1]
          /\ leap_result' = out[2]
          /\ E' = out[3]
    /\ calls' = calls + 1
    /\ last_op' = Op("execute_leap")
    /\ UNCHANGED <<territoryVars, chaosVars, global_kappa, perceived_objects, current_time, similarity_cache,
                   total_heat_loss, T, decision_history, last_cleanup, leap_check,
                   reactVars, caller_time, cacheVars>>

\* SSDCoreEngine.system_maintenance()
SystemMaintenance ==
    /\ calls < MaxCalls
    /\ layers' \in auto_stabilize_structure(layers)
    /\ similarity_cache' = cleanup_cache(similarity_cache)
    /\ last_cleanup' = current_time
    /\ calls' = calls + 1
    /\ last_op' = Op("system_maintenance")
    /\ UNCHANGED <<territoryVars, chaosVars, E, global_kappa, perceived_objects, current_time, total_heat_loss,
                   T, decision_history, leap_check, leap_result, reactVars,
                   caller_time, cacheVars>>

\* the stimulus step() builds from a perceived object
stimulus_of(obj_id) ==
    LET obj == ObjectCatalogue[obj_id]
    IN [type |-> obj.type,
        intensity |-> Min(obj.current_value \div 100, SCALE),
        social_context |-> obj.type \in {"social", "tool"},
        danger_level |-> IF "danger_level" \in DOMAIN obj.properties
                         THEN obj.properties["danger_level"] * SCALE ELSE 0,
        value_alignment |-> 5000,
        long_term_benefit |-> 5000]

\* E after perceive_object was called for objs[i..], in order
RECURSIVE perceive_all(_, _, _, _, _, _)
perceive_all(objs, i, e, ls, cache, draws) ==
    IF i > Len(objs) THEN e
    ELSE perceive_all(objs, i + 1,
                      add_meaning_pressure(e, total_pressure(objs[i], ls, cache, draws)),
                      ls, cache, draws)

\* the pending queue after process_stimulus_reaction was called for objs[i..]
RECURSIVE react_all(_, _, _, _, _)
react_all(objs, i, q, bounded, now) ==
    IF i > Len(objs) THEN q
    ELSE react_all(objs, i + 1,
                   deque_append(q, bounded,
                       [stimulus |-> stimulus_of(objs[i]),
                        unconscious |->
                            immediate_base_layer_response(stimulus_of(objs[i]), now),
                        process_at |-> scheduled_time(now), timestamp |-> now]),
                   bounded, now)

\* the table after reads that index the defaultdict: every missing key is
\* created with the default
kappa_after_index(kappa, keys) ==
    [key \in DOMAIN kappa \cup keys |->
        IF key \in DOMAIN kappa THEN kappa[key] ELSE KappaDefault]

\* the table after the reads global_kappa.get(key, 0.1) of the thermal
\* alignment and of _evaluate_action, and after list(global_kappa.values())
\* of check_leap_condition: get and values create no key
kappa_after_get(kappa, keys) == kappa

\* a step that updates the temperature before the leap
temperature_before_leap(pre_leap_E, post_leap_E) == temperature(pre_leap_E)

\* 4. update_temperature() of step(): it reads the E the leap left
step_temperature(pre_leap_E, post_leap_E) == temperature(post_leap_E)

\* SSDCoreEngine.step(perceived_objects=objs, available_actions=actions)
step(objs, actions) ==
    LET now == current_time + 1
        rnow == now * TICK
        seen == {objs[i] : i \in 1..Len(objs)}
        keys == UNION {similarity_keys(o, layers) : o \in seen}
        perceived1 == perceived_objects \cup seen
        \* 2. alignment on the E left by the perception, then natural decay
        kappa2 == aligned_kappa(layers, global_kappa)
        \* 2c. immediate reactions and the conscious reprocessing
        queue2 == react_all(objs, 1, pending_reactions, pending_maxlen, rnow)
    IN
    /\ current_time' = now
    /\ perceived_objects' = perceived1
    /\ global_kappa' =
          kappa_after_get(kappa2,
              {e \in ElemIds : \E l \in Layers : e \in DOMAIN layers[l]}
              \cup {actions[i] : i \in 1..Len(actions)})
    /\ IF objs # <<>>
       THEN /\ immediate' = immediate_base_layer_response(
                                stimulus_of(objs[Len(objs)]), rnow)
            /\ processed' = processed_reactions(queue2, rnow)
            /\ pending_reactions' = remaining_reactions(queue2, rnow)
            /\ pending_maxlen' = FALSE
       ELSE UNCHANGED reactVars
    /\ \E draws \in SimilarityDraws(keys, similarity_cache),
          u \in FluctuationDraws(kappa2), fire \in BOOLEAN :
        LET E1 == perceive_all(objs, 1, E, layers, similarity_cache, draws)
            layers2 == aligned_layers(layers, global_kappa, E1)
            E2 == natural_decay(E1)
            \* 3. leap check and leap
            chk == check_leap_condition(E2, kappa2, perceived1, u)
            leaps == IF fire THEN execute_leap(layers2, perceived1, E2)
                     ELSE {<<layers2, leap_result, E2>>}
        IN
        /\ IF fire THEN chk.can_fire ELSE chk.can_hold
        /\ leap_check' = chk
        \* 2b. thermal alignment
        /\ total_heat_loss' = total_heat_loss + step_heat_loss(layers2, kappa2)
        /\ \E leap \in leaps :
            LET layers3 == leap[1]
                E3 == leap[3]
                \* 4. temperature, 5. decision
                T4 == step_temperature(E2, E3)
                maintain == should_perform_maintenance(now, last_cleanup)
            IN
            /\ E' = E3
            /\ leap_result' = leap[2]
            /\ T' = T4
            /\ IF actions # <<>>
               THEN \E d \in make_decision(actions, layers3, kappa2, perceived1, E3, T4) :
                      decision_history' =
                          history_append(decision_history,
                              [action |-> d[1], info |-> d[2],
                               timestamp |-> Len(decision_history)])
               ELSE UNCHANGED decision_history
            \* 7. maintenance
            /\ IF maintain
               THEN /\ layers' \in auto_stabilize_structure(layers3)
                    /\ similarity_cache' =
                           cleanup_cache(cache_after(similarity_cache, draws, keys))
                    /\ last_cleanup' = now
               ELSE /\ layers' = layers3
                    /\ similarity_cache' = cache_after(similarity_cache, draws, keys)
                    /\ UNCHANGED last_cleanup
    /\ last_op' = [op |-> "step", perceived |-> Len(objs)]
    /\ UNCHANGED <<territoryVars, chaosVars, calls, caller_time, cacheVars>>

\* a step() call of a run of at most MaxTime steps
Step(objs, actions) ==
    /\ current_time < MaxTime
    /\ step(objs, actions)

AlignCall ==
    /\ calls < MaxCalls
    /\ calls' = calls + 1
    /\ ProcessAlignmentStep

Next ==
    \/ \E el \in ElementInputs : AddStructuralElement(el[1], el[2])
    \/ \E o \in ObjIds : PerceiveObject(o)
    \/ \E p \in PressureInputs : AddMeaningPressure(p)
    \/ AlignCall
    \/ ExecuteLeap
    \/ SystemMaintenance
    \/ \E objs \in PerceptionInputs, actions \in ActionInputs : Step(objs, actions)

Spec == Init /\ [][Next]_vars

-----------------------------------------------------------------------------
(* Alignment ticks alone: a caller that builds the structure and then calls *)
(* process_alignment_step() tick after tick.                                *)

AlignTick ==
    /\ ProcessAlignmentStep
    /\ UNCHANGED calls

NextKappa ==
    \/ \E el \in ElementInputs : AddStructuralElement(el[1], el[2])
    \/ AlignTick

SpecKappa == Init /\ [][NextKappa]_vars

-----------------------------------------------------------------------------
(* The reaction system driven directly (TwoStageReactionSystem) *)

MaxPending == 3       \* queue length up to which react is called
MaxFill == 101        \* queue length up to which the filling caller goes on

\* the threat and the food stimulus of test_two_stage_reaction_system, the
\* keys they leave out filled with the defaults the code reads
Stimuli ==
    {[type |-> "threat", intensity |-> 9000, social_context |-> FALSE,
      danger_level |-> 8000, value_alignment |-> 5000, long_term_benefit |-> 5000],
     [type |-> "food", intensity |-> 7000, social_context |-> TRUE,
      danger_level |-> 0, value_alignment |-> 6000, long_term_benefit |-> 4000]}

FillStimuli == {s \in Stimuli : s.type = "threat"}

\* the timestamps a caller passes, in units of 1/TICK
ReactTimes == {0, 20, conscious_processing_time}
ReactFillTimes == {0, conscious_processing_time}

\* TwoStageReactionSystem.process_reaction(stimulus, now)
React(stimulus, now, limit) ==
    /\ Len(pending_reactions) < limit
    /\ react_update(stimulus, now)
    /\ caller_time' = now
    /\ last_op' = Op("react")
    /\ UNCHANGED <<territoryVars, chaosVars, engineVars, calls, pending_maxlen, processed, cacheVars,
                   leap_check, leap_result>>

\* TwoStageReactionSystem.process_conscious_reactions(now, layers)
Reprocess(now) ==
    /\ reprocess_update(now)
    /\ caller_time' = now
    /\ last_op' = [op |-> "reprocess",
                   again |-> last_op.op = "reprocess" /\ caller_time = now]
    /\ UNCHANGED <<territoryVars, chaosVars, engineVars, calls, immediate, cacheVars, leap_check, leap_result>>

NextReact ==
    \/ \E st \in Stimuli, now \in ReactTimes : React(st, now, MaxPending)
    \/ \E now \in ReactTimes : Reprocess(now)

SpecReact == Init /\ [][NextReact]_vars

\* a caller whose clock never goes back, filling the queue
NextReactFill ==
    \/ \E st \in FillStimuli, now \in ReactFillTimes :
          now >= caller_time /\ React(st, now, MaxFill)
    \/ \E now \in ReactFillTimes : now >= caller_time /\ Reprocess(now)

SpecReactFill == Init /\ [][NextReactFill]_vars

-----------------------------------------------------------------------------
(* The prediction system driven directly (PredictionSystem) *)

MaxCache == 3         \* cache size up to which new keys are predicted

\* PredictionSystem.predict_future_state for the key whose entry has timestamp
\* `slot` (a new key when slot = NoEntry)
Predict(slot, present, now, limit) ==
    /\ slot \in CacheSlots(prediction_cache)
    /\ slot = NoEntry => CacheSize(prediction_cache) < limit
    /\ predict_future_state(slot, present, now)
    /\ caller_time' = now
    /\ last_op' = Op("predict")
    /\ UNCHANGED <<territoryVars, chaosVars, engineVars, calls, reactVars, leap_check, leap_result>>

NextCache ==
    \E slot \in {NoEntry} \cup CacheTimes, present \in BOOLEAN, now \in CacheTimes :
        Predict(slot, present, now, MaxCache)

SpecCache == Init /\ [][NextCache]_vars

NextCacheFill ==
    \E slot \in {NoEntry} \cup FillTimes, present \in BOOLEAN, now \in FillTimes :
        Predict(slot, present, now, PredictionCacheCap + 1)

SpecCacheFill == Init /\ [][NextCacheFill]_vars

-----------------------------------------------------------------------------
(* check_leap_condition on its own: the inputs are drawn, the check is run *)

LeapEs == {k * 1000 : k \in 0..100} \cup (9001..9004)
LeapKappas ==
    {EmptyDict,
     [k \in {"water_need"} |-> KappaDefault],
     [k \in ElemIds |-> IF k = "concept" THEN KappaFloor ELSE kappa_decay(KappaDefault)],
     [k \in ElemIds |-> KappaFloor]}

InitLeapProb ==
    /\ E \in LeapEs
    /\ global_kappa \in LeapKappas
    /\ perceived_objects \in SUBSET ObjIds
    /\ layers = EmptyLayers
    /\ similarity_cache = EmptyDict
    /\ total_heat_loss = 0
    /\ decision_history = <<>>
    /\ last_cleanup = 0
    /\ current_time = 0
    /\ T = T_INITIAL
    /\ leap_check = NoLeapCheck
    /\ leap_result = NoLeap
    /\ ReactInit
    /\ CacheInit
    /\ TerritoryInit
    /\ ChaosInit
    /\ calls = 0
    /\ last_op = Op("init")

\* SSDCoreEngine.check_leap_condition()
CheckLeap ==
    /\ \E u \in FluctuationDraws(global_kappa) :
          leap_check' = check_leap_condition(E, global_kappa, perceived_objects, u)
    /\ last_op' = Op("check_leap_condition")
    /\ UNCHANGED <<territoryVars, chaosVars, engineVars, calls, reactVars, caller_time, cacheVars, leap_result>>

SpecLeapProb == InitLeapProb /\ [][CheckLeap]_vars

-----------------------------------------------------------------------------
(* Properties *)

Elements == {<<l, e>> \in Layers \X ElemIds : e \in DOMAIN layers[l]}

KappaDecaysToFloor ==
    [][last_op'.op = "process_alignment_step" =>
         \A k \in DOMAIN global_kappa' :
            /\ global_kappa'[k] >= KappaFloor
            /\ k \in DOMAIN global_kappa =>
                  global_kappa'[k] = Max(KappaFloor, (global_kappa[k] * 995) \div 1000)]_vars

\* C2's case: after a tick, one entry sits on the floor while a younger one still decays
KappaOnFloor ==
    /\ last_op.op = "process_alignment_step"
    /\ \E k \in DOMAIN global_kappa : global_kappa[k] = KappaFloor
    /\ \E k \in DOMAIN global_kappa : global_kappa[k] > KappaFloor

\* C3: every structural element's activation lies in [0, 1], whatever
\* alignment steps, leaps, maintenance runs and engine steps have run.
ActivationWithinRange ==
    \A le \in Elements :
        /\ layers[le[1]][le[2]].activation >= 0
        /\ layers[le[1]][le[2]].activation <= SCALE

\* C3's case: an engine step whose alignment was cut down to activation 1.0
ActivationSaturated ==
    /\ last_op.op = "step"
    /\ \E le \in Elements : layers[le[1]][le[2]].activation = SCALE

\* C4: when check_leap_condition finds E above the threshold, the probability
\* with which it reports a leap lies in [0.05, 0.95].
LeapProbabilityClamped ==
    leap_check.over => leap_check.probability >= 500 /\ leap_check.probability <= 9500

\* C4's case: E just above the threshold, where the unclamped value is below 0.05
LeapProbabilityRaised ==
    /\ last_op.op = "check_leap_condition"
    /\ leap_check.over
    /\ normalized_prob(leap_check.E, leap_check.threshold,
                       survival_urgency(perceived_objects)) < 500
    /\ leap_check.probability = 500

\* C5: the prediction cache never holds more than 100 entries.
CacheWithinCap == CacheSize(prediction_cache) <= PredictionCacheCap

\* C5's case: a result was stored into a full cache, after the cleanup
StoredIntoFullCache ==
    /\ last_op.op = "predict"
    /\ prediction.cleaned
    /\ distinct_predictions > PredictionCacheCap

CachedTimestamps == {ts \in DOMAIN prediction_cache : prediction_cache[ts] > 0}

\* C6 as stated: once more than 100 distinct keys were predicted, every entry
\* in the cache is at most 10 steps older than the time of the latest call.
AllEntriesRecent ==
    distinct_predictions > PredictionCacheCap =>
        \A ts \in CachedTimestamps : caller_time - ts <= CacheExpiry

\* C6: right after a predict call that ran the cleanup, every entry in the
\* cache is at most 10 steps older than the time of that call.
EntriesRecentAfterCleanup ==
    (last_op.op = "predict" /\ prediction.cleaned) =>
        \A ts \in CachedTimestamps : prediction.now - ts <= CacheExpiry

\* C6's case: a cleanup at time 11 of a cache that was filled at time 0
CleanupDroppedExpired ==
    /\ last_op.op = "predict"
    /\ prediction.cleaned
    /\ prediction.now > CacheExpiry
    /\ distinct_predictions > PredictionCacheCap

\* the latest call was made for a key that had an entry of age < 5, resp. >= 5
CalledFresh ==
    /\ last_op.op = "predict"
    /\ prediction.slot # NoEntry
    /\ prediction.now - prediction.slot < CacheValidFor
CalledStale ==
    /\ last_op.op = "predict"
    /\ prediction.slot # NoEntry
    /\ prediction.now - prediction.slot >= CacheValidFor

ReturnedCached ==
    prediction.kind = "cached" /\ prediction.timestamp = prediction.slot
Recomputed ==
    /\ prediction.kind = "computed"
    /\ prediction.timestamp = prediction.now
    /\ prediction.key_after = prediction.now
    /\ prediction_cache[prediction.now] > 0

\* C7 as stated: a call for a key whose entry is less than 5 steps old returns
\* that entry; a call for a key whose entry is 5 or more steps old recomputes,
\* and the key's entry is then stamped with the time of the call.
StaleAlwaysRecomputed ==
    /\ CalledFresh => ReturnedCached
    /\ CalledStale => Recomputed

\* C7: a call for a key whose entry is less than 5 steps old returns that
\* entry; a call for a key whose entry is 5 or more steps old does not return
\* it: when the object is among the perceived objects the call recomputes and
\* the key's entry is then stamped with the time of the call, and when it is
\* not, the call returns the neutral result stamped with the time of the call
\* and the old entry stays.
StaleRecomputedWhenPerceived ==
    /\ CalledFresh => ReturnedCached
    /\ (CalledStale /\ prediction.present) => Recomputed
    /\ (CalledStale /\ ~prediction.present) =>
          /\ prediction.kind = "neutral"
          /\ prediction.timestamp = prediction.now
          /\ prediction.key_after = prediction.slot
          /\ prediction_cache[prediction.slot] > 0

\* C7's case: an entry exactly 5 steps old was recomputed
StaleEntryRecomputed ==
    /\ CalledStale
    /\ prediction.now - prediction.slot = CacheValidFor
    /\ prediction.present
    /\ Recomputed

\* C8: process_conscious_reactions(now) returns a result only for entries
\* with now >= enqueue time + 0.35, one for each of them, and the entries
\* whose scheduled time has not come stay in the queue in their order.
ReleasedOnlyWhenDue ==
    [][last_op'.op = "reprocess" =>
         /\ \A i \in DOMAIN processed' :
               caller_time' >= processed'[i].unconscious_response.timestamp
                                 + conscious_processing_time
         /\ Len(processed') =
               Cardinality({i \in DOMAIN pending_reactions :
                   caller_time' >= pending_reactions[i].timestamp
                                     + conscious_processing_time})
         /\ pending_reactions' =
               SelectSeq(pending_reactions,
                         LAMBDA r : caller_time' < r.timestamp + conscious_processing_time)
      ]_vars

\* C8's case: a reprocessing that released one entry and kept two others
ReleasedSomeKeptOthers ==
    /\ last_op.op = "reprocess"
    /\ Len(processed) = 1
    /\ Len(pending_reactions) = 2
    /\ pending_reactions[1].timestamp # pending_reactions[2].timestamp

\* C9: a second process_conscious_reactions call with the same timestamp,
\* with no process_reaction call in between, returns nothing and leaves the
\* pending queue as it is.
ReprocessIdempotent ==
    [][(last_op.op = "reprocess" /\ last_op'.op = "reprocess"
          /\ caller_time' = caller_time) =>
         (processed' = <<>> /\ pending_reactions' = pending_reactions)]_vars

\* C9's case: the call repeats the previous call's timestamp while the queue
\* still holds an entry that was enqueued before that timestamp
ReprocessRepeated ==
    /\ last_op.op = "reprocess"
    /\ last_op.again
    /\ pending_reactions # <<>>
    /\ \E i \in DOMAIN pending_reactions :
          pending_reactions[i].timestamp < caller_time

\* C10 as stated: the pending queue never holds more than 100 entries.
PendingWithinMaxLen == Len(pending_reactions) <= PendingMaxLen

-----------------------------------------------------------------------------
(* The engine driven by step() alone, tick after tick *)

MaxTicks == 3         \* step() calls of a run of ticks

NextTicks ==
    \E objs \in PerceptionInputs, actions \in ActionInputs :
        current_time < MaxTicks /\ step(objs, actions)

SpecTicks == Init /\ [][NextTicks]_vars

\* C11 as stated: the reprocessing runs in every step, so after a step no
\* pending reaction is left whose scheduled time has come.
DelayedStageRunsEveryStep ==
    last_op.op = "step" =>
        \A i \in DOMAIN pending_reactions :
            current_time * TICK < pending_reactions[i].process_at

\* C12 as stated: a predict call for an object that is not among the
\* perceived objects returns the neutral result, whatever was predicted before.
AbsentAlwaysNeutral ==
    (last_op.op = "predict" /\ ~prediction.present) => prediction.kind = "neutral"

-----------------------------------------------------------------------------
(* SSDCoreEngine.make_decision called directly *)

DecideInputs == {<<>>, <<"observe">>, <<"observe", "drink">>, <<"drink", "observe">>}

\* DecisionInfo(chosen_action=""), the other fields at their defaults
EmptyDecisionInfo ==
    [chosen_action |-> "", scores |-> EmptyDict, exploration_mode |-> FALSE,
     E_level |-> 0, T_level |-> 0]

\* an engine that records a decision for the empty list as well
decides_without_guard(actions, h, ls, kappa, perceived, current_E, temp) ==
    IF actions = <<>>
    THEN {<<<<"None", EmptyDecisionInfo>>,
            history_append(h, [action |-> "None", info |-> EmptyDecisionInfo,
                               timestamp |-> Len(h)])>>}
    ELSE {<<d, history_append(h, [action |-> d[1], info |-> d[2],
                                  timestamp |-> Len(h)])>> :
             d \in make_decision(actions, ls, kappa, perceived, current_E, temp)}

\* SSDCoreEngine.make_decision(available_actions): the possible pairs of the
\* returned <<chosen_action, DecisionInfo>> and the decision history it leaves
engine_make_decision(actions, h, ls, kappa, perceived, current_E, temp) ==
    IF actions = <<>>
    THEN {<<<<"None", EmptyDecisionInfo>>, h>>}
    ELSE {<<d, history_append(h, [action |-> d[1], info |-> d[2],
                                  timestamp |-> Len(h)])>> :
             d \in make_decision(actions, ls, kappa, perceived, current_E, temp)}

MakeDecision(actions) ==
    /\ calls < MaxCalls
    /\ \E out \in engine_make_decision(actions, decision_history, layers, global_kappa,
                                       perceived_objects, E, T) :
          /\ decision_history' = out[2]
          /\ last_op' = [op |-> "make_decision", actions |-> actions,
                         returned |-> out[1]]
    /\ calls' = calls + 1
    /\ UNCHANGED <<territoryVars, chaosVars, E, layers, global_kappa, perceived_objects, current_time,
                   similarity_cache, total_heat_loss, T, last_cleanup, leap_check,
                   leap_result, reactVars, caller_time, cacheVars>>

NextDecide ==
    \/ \E o \in ObjIds : PerceiveObject(o)
    \/ \E p \in PressureInputs : AddMeaningPressure(p)
    \/ \E actions \in DecideInputs : MakeDecision(actions)

SpecDecide == Init /\ [][NextDecide]_vars

\* C13: make_decision with an empty action list returns None with an empty
\* DecisionInfo and leaves the decision history and the temperature as they were.
EmptyDecisionIsNull ==
    [][(last_op'.op = "make_decision" /\ last_op'.actions = <<>>) =>
         /\ last_op'.returned = <<"None", EmptyDecisionInfo>>
         /\ decision_history' = decision_history
         /\ T' = T]_vars

\* C13's case: the empty list was handed over after a decision had been recorded
EmptyDecisionAfterDecision ==
    /\ last_op.op = "make_decision"
    /\ last_op.actions = <<>>
    /\ decision_history # <<>>

\* C19: make_decision with a single candidate returns that candidate, and a
\* decision taken without exploration returns an action whose score is maximal
\* among the candidates.
DecisionIsBestUnlessExploring ==
    (last_op.op = "make_decision" /\ last_op.actions # <<>>) =>
        LET chosen == last_op.returned[1]
            info == last_op.returned[2]
        IN /\ Len(last_op.actions) = 1 => chosen = last_op.actions[1]
           /\ ~info.exploration_mode =>
                  \A a \in DOMAIN info.scores : info.scores[a] <= info.scores[chosen]

\* C19's case: without exploring, the second candidate was chosen because it
\* scores strictly higher than the first
BestWasNotFirst ==
    /\ last_op.op = "make_decision"
    /\ Len(last_op.actions) = 2
    /\ ~last_op.returned[2].exploration_mode
    /\ last_op.returned[1] = last_op.actions[2]
    /\ last_op.returned[2].scores[last_op.actions[1]]
           < last_op.returned[2].scores[last_op.actions[2]]

\* C16: check_leap_condition can report a leap exactly when E is above the
\* threshold it computed: with E <= threshold it returns False, with
\* E > threshold the outcome True has a positive probability.
LeapOnlyAboveThreshold ==
    last_op.op = "check_leap_condition" =>
        /\ leap_check.can_fire <=> leap_check.E > leap_check.threshold
        /\ leap_check.E <= leap_check.threshold => leap_check.can_hold

\* C16's case: E = 9.0 against the threshold 0.84 of a kappa table at 0.05
LeapPossibleAtNine ==
    /\ last_op.op = "check_leap_condition"
    /\ leap_check.E = 9 * SCALE
    /\ leap_check.threshold = 8400
    /\ leap_check.can_fire

-----------------------------------------------------------------------------
(* The forecast of predict_future_state on its own *)

MaxHorizon == 4       \* steps_ahead of a forecast

\* the objects of create_survival_scenario_objects
ForecastObjects ==
    {[id |-> "water_critical", type |-> "water", current_value |-> 20 * SCALE,
      decline_rate |-> 3 * SCALE, volatility |-> 4000],
     [id |-> "storm_threat", type |-> "danger", current_value |-> 90 * SCALE,
      decline_rate |-> 0 - 5 * SCALE, volatility |-> 6000],
     [id |-> "medicine_kit", type |-> "medicine", current_value |-> 80 * SCALE,
      decline_rate |-> 1000, volatility |-> 1000]}

\* PredictionSystem(prediction_accuracy=...): the default 0.8 and an exact
\* predictor, whose random_factor is zero
PredictionAccuracies == {8000, SCALE}

\* trend_memory as the forecast object sees it: per remembered tick the set
\* holding its recorded change, empty when the tick recorded none for it
TrendMemories ==
    {<<>>,
     <<{2 * SCALE}, {}, {4 * SCALE}>>,
     <<{SCALE}, {}, {}, {SCALE}>>,
     <<{0 - 3 * SCALE}, {0 - 3 * SCALE}, {0 - 3 * SCALE}>>,
     <<{6 * SCALE}, {6 * SCALE}, {6 * SCALE}>>}

\* _calculate_trend_modifier
calculate_trend_modifier(trend_memory) ==
    IF Len(trend_memory) < 3 THEN SCALE
    ELSE LET last3 == SubSeq(trend_memory, Len(trend_memory) - 2, Len(trend_memory))
             present == {i \in 1..3 : last3[i] # {}}
             change(i) == CHOOSE v \in last3[i] : TRUE
             total == SumOver(present, change)
         IN IF Cardinality(present) >= 2
            THEN Max(5000, Min(2 * SCALE,
                               SCALE + (3 * (total \div Cardinality(present))) \div 10))
            ELSE SCALE

\* the draws random.uniform(-volatility, volatility) * (1 - accuracy) of the
\* model: the two ends
NoiseDraws(volatility, accuracy) ==
    {0 - Mul(volatility, SCALE - accuracy), Mul(volatility, SCALE - accuracy)}

\* a forecast whose first value is the current one
predicted_from_now(obj, modifier, k, noise) ==
    Max(0, obj.current_value - Mul(obj.decline_rate, modifier) * (k - 1) + noise)

\* predicted_value of step k
predicted_value(obj, modifier, k, noise) ==
    Max(0, obj.current_value - Mul(obj.decline_rate, modifier) * k + noise)

\* crisis_thresholds.get(object_type, default)
crisis_thresholds(type) ==
    CASE type = "health" -> [critical |-> 20 * SCALE, severe |-> 40 * SCALE, moderate |-> 60 * SCALE]
      [] type = "water"  -> [critical |-> 10 * SCALE, severe |-> 30 * SCALE, moderate |-> 50 * SCALE]
      [] type = "food"   -> [critical |-> 15 * SCALE, severe |-> 35 * SCALE, moderate |-> 55 * SCALE]
      [] type = "energy" -> [critical |-> 25 * SCALE, severe |-> 45 * SCALE, moderate |-> 65 * SCALE]
      [] type \in {"danger", "threat"} ->
                            [critical |-> 80 * SCALE, severe |-> 60 * SCALE, moderate |-> 40 * SCALE]
      [] OTHER           -> [critical |-> 20 * SCALE, severe |-> 40 * SCALE, moderate |-> 60 * SCALE]

\* min(predictions)
min_pred(predictions) ==
    CHOOSE m \in {predictions[i] : i \in DOMAIN predictions} :
        \A i \in DOMAIN predictions : m <= predictions[i]

\* _assess_crisis_level
assess_crisis_level(predictions, type) ==
    IF predictions = <<>> THEN "none"
    ELSE LET thresholds == crisis_thresholds(type)
         IN IF min_pred(predictions) <= thresholds.critical THEN "critical"
            ELSE IF min_pred(predictions) <= thresholds.severe THEN "severe"
            ELSE IF min_pred(predictions) <= thresholds.moderate THEN "moderate"
            ELSE "none"

\* the forecast part of predict_future_state (cache aside): the predictions and
\* their crisis level, for every draw of the noise
Forecast(obj, accuracy, trend_memory, steps_ahead) ==
    /\ \E noise \in [1..steps_ahead -> NoiseDraws(obj.volatility, accuracy)] :
          LET modifier == calculate_trend_modifier(trend_memory)
              predictions == [k \in 1..steps_ahead |->
                                 predicted_value(obj, modifier, k, noise[k])]
          IN last_op' = [op |-> "forecast", object |-> obj, accuracy |-> accuracy,
                         trend_memory |-> trend_memory, noise |-> noise,
                         trend_modifier |-> modifier, predictions |-> predictions,
                         crisis_level |-> assess_crisis_level(predictions, obj.type)]
    /\ UNCHANGED <<territoryVars, chaosVars, engineVars, calls, reactVars, caller_time, cacheVars, leap_check,
                   leap_result>>

NextForecast ==
    \E obj \in ForecastObjects, accuracy \in PredictionAccuracies,
       trend_memory \in TrendMemories, steps_ahead \in 1..MaxHorizon :
        Forecast(obj, accuracy, trend_memory, steps_ahead)

SpecForecast == Init /\ [][NextForecast]_vars

\* the case of scenario A: water at 20 declining by 3.0 per step, no noise, no
\* trend history, three steps ahead
ScenarioA ==
    /\ last_op.op = "forecast"
    /\ last_op.object.type = "water"
    /\ last_op.object.current_value = 20 * SCALE
    /\ last_op.object.decline_rate = 3 * SCALE
    /\ \A k \in DOMAIN last_op.noise : last_op.noise[k] = 0
    /\ last_op.trend_memory = <<>>
    /\ Len(last_op.predictions) = 3

\* C17 as stated: in scenario A the minimum forecast value is at most 10 and
\* the crisis level is critical.
ScenarioAIsCritical ==
    ScenarioA =>
        /\ min_pred(last_op.predictions) <= 10 * SCALE
        /\ last_op.crisis_level = "critical"

\* C17, amended: in scenario A the forecast is 17, 14, 11, so its minimum is 11,
\* above the critical threshold 10 of water, and the crisis level is severe.
ScenarioAIsSevere ==
    ScenarioA =>
        /\ last_op.predictions = <<17 * SCALE, 14 * SCALE, 11 * SCALE>>
        /\ min_pred(last_op.predictions) = 11 * SCALE
        /\ last_op.crisis_level = "severe"

\* C17's case: scenario A was forecast by the exact predictor
ScenarioAForecast == ScenarioA /\ last_op.accuracy = SCALE

-----------------------------------------------------------------------------
(* The reaction system under threats of every strength *)

ThreatIntensities == {7000, 7400, 8000, 8100, 9000, SCALE}

ThreatStimuli ==
    {[type |-> "threat", intensity |-> i, social_context |-> FALSE,
      danger_level |-> 8000, value_alignment |-> 5000, long_term_benefit |-> 5000] :
        i \in ThreatIntensities}

NextThreat ==
    \/ \E st \in ThreatStimuli : React(st, 0, MaxPending)
    \/ \E now \in ReactFillTimes : Reprocess(now)

SpecThreat == Init /\ [][NextThreat]_vars

\* the stimulus of the last process_reaction call
last_stimulus == pending_reactions[Len(pending_reactions)].stimulus

\* C18: process_reaction on a threat whose strength 0.95 * intensity is above
\* 0.7 returns flee when the intensity is above 0.8 and freeze otherwise, with
\* that strength, whatever is pending.
ThreatFleesOrFreezes ==
    (/\ last_op.op = "react"
     /\ last_stimulus.type = "threat"
     /\ 95 * last_stimulus.intensity > 70 * SCALE) =>
        /\ immediate.action \in {"flee", "freeze"}
        /\ immediate.action = (IF last_stimulus.intensity > 8000 THEN "flee" ELSE "freeze")
        /\ 100 * immediate.strength = 95 * last_stimulus.intensity

\* C18's case: a threat of intensity 0.9 answered by flee with strength 0.855
\* while earlier reactions are pending
ThreatFledWhilePending ==
    /\ last_op.op = "react"
    /\ Len(pending_reactions) > 1
    /\ last_stimulus.intensity = 9000
    /\ immediate.action = "flee"
    /\ immediate.strength = 8550

-----------------------------------------------------------------------------
(* The engine left alone: alignment steps and ticks that add no pressure *)

InitDecay ==
    /\ E \in {e \in LeapEs : e % 5000 = 0} \cup (0..20)
    /\ perceived_objects \in {{}, {"water_critical"}}
    /\ global_kappa = EmptyDict
    /\ layers = EmptyLayers
    /\ similarity_cache = EmptyDict
    /\ total_heat_loss = 0
    /\ decision_history = <<>>
    /\ last_cleanup = 0
    /\ current_time = 0
    /\ T = T_INITIAL
    /\ leap_check = NoLeapCheck
    /\ leap_result = NoLeap
    /\ ReactInit
    /\ CacheInit
    /\ TerritoryInit
    /\ ChaosInit
    /\ calls = 0
    /\ last_op = Op("init")

NextDecay ==
    \/ AlignCall
    \/ current_time < MaxTicks /\ step(<<>>, <<>>)

SpecDecay == InitDecay /\ [][NextDecay]_vars

\* C20: natural decay never increases E, decay(decay(E)) <= decay(E) <= E, and
\* no alignment step or engine tick that adds no pressure leaves E higher than
\* it found it.
DecayNeverRaisesE ==
    [][/\ E' <= E
       /\ natural_decay(E) <= E
       /\ natural_decay(natural_decay(E)) <= natural_decay(E)
       /\ last_op'.op = "process_alignment_step" => E' = natural_decay(E)]_vars

\* C20's case: a run of ticks without pressure that still has pressure left
DecayedOverTicks ==
    /\ last_op.op = "step"
    /\ current_time >= 2
    /\ E > 0
    /\ E < E_MAX

-----------------------------------------------------------------------------
(* The core operations handed a layer table that omits layers *)

\* the table of an agent with one base and one upper element
FullTable ==
    [l \in Layers |->
        IF l = "base" THEN [e \in {"water_need"} |-> new_element("base")]
        ELSE IF l = "upper" THEN [e \in {"concept"} |-> new_element("upper")]
        ELSE EmptyDict]

\* a table that fills the omitted layers in
table_filled_in(full, table) == full

\* the layers of `full` that `table` has: what an operation leaves in the
\* caller's table
table_kept(full, table) == [l \in DOMAIN table |-> full[l]]

\* the table as the operations read it: `if layer in layers` skips an
\* omitted layer and layers.get(layer, {}) reads it as empty
layers_get(table) ==
    [l \in Layers |-> IF l \in DOMAIN table THEN table[l] ELSE EmptyDict]

InitPartial ==
    /\ E \in {0, 9 * SCALE}
    /\ layers \in {[l \in D |-> FullTable[l]] : D \in (SUBSET Layers) \ {Layers}}
    /\ perceived_objects \in {{}, {"water_critical"}}
    /\ global_kappa = EmptyDict
    /\ similarity_cache = EmptyDict
    /\ total_heat_loss = 0
    /\ decision_history = <<>>
    /\ last_cleanup = 0
    /\ current_time = 0
    /\ T = T_INITIAL
    /\ leap_check = NoLeapCheck
    /\ leap_result = NoLeap
    /\ ReactInit
    /\ CacheInit
    /\ TerritoryInit
    /\ ChaosInit
    /\ calls = 0
    /\ last_op = Op("init")

\* what a core operation reports of its call: no path of the four raises
core_call(name) ==
    [op |-> name, omitted |-> Layers \ DOMAIN layers, raised |-> "none"]

\* AlignmentProcessor.process_alignment_step(layers, current_E)
AlignPartial ==
    /\ calls < MaxCalls
    /\ layers' = table_kept(aligned_layers(layers_get(layers), global_kappa, E), layers)
    /\ global_kappa' = aligned_kappa(layers_get(layers), global_kappa)
    /\ calls' = calls + 1
    /\ last_op' = core_call("align")
    /\ UNCHANGED <<territoryVars, chaosVars, E, perceived_objects, current_time, similarity_cache,
                   total_heat_loss, T, decision_history, last_cleanup, leap_check,
                   leap_result, reactVars, caller_time, cacheVars>>

\* MeaningPressureProcessor.calculate_total_pressure(obj, layer_structures) and
\* the accumulation of its result
PressurePartial(obj_id) ==
    /\ calls < MaxCalls
    /\ \E draws \in SimilarityDraws(similarity_keys(obj_id, layers_get(layers)),
                                    similarity_cache) :
          /\ E' = add_meaning_pressure(E, total_pressure(obj_id, layers_get(layers),
                                                         similarity_cache, draws))
          /\ similarity_cache' = cache_after(similarity_cache, draws,
                                             similarity_keys(obj_id, layers_get(layers)))
    /\ calls' = calls + 1
    /\ last_op' = core_call("accumulate_pressure")
    /\ UNCHANGED <<territoryVars, chaosVars, layers, global_kappa, perceived_objects, current_time,
                   total_heat_loss, T, decision_history, last_cleanup, leap_check,
                   leap_result, reactVars, caller_time, cacheVars>>

\* LeapProcessor.execute_leap(layers, perceived_objects, current_E)
LeapPartial ==
    /\ calls < MaxCalls
    /\ \E out \in execute_leap(layers_get(layers), perceived_objects, E) :
          /\ layers' = table_kept(out[1], layers)
          /\ leap_result' = out[2]
          /\ E' = out[3]
    /\ calls' = calls + 1
    /\ last_op' = core_call("execute_leap")
    /\ UNCHANGED <<territoryVars, chaosVars, global_kappa, perceived_objects, current_time, similarity_cache,
                   total_heat_loss, T, decision_history, last_cleanup, leap_check,
                   reactVars, caller_time, cacheVars>>

\* DecisionSystem.make_decision(available_actions, layers, ...)
DecidePartial(actions) ==
    /\ calls < MaxCalls
    /\ \E out \in engine_make_decision(actions, decision_history, layers_get(layers),
                                       global_kappa, perceived_objects, E, T) :
          decision_history' = out[2]
    /\ calls' = calls + 1
    /\ last_op' = core_call("decide")
    /\ UNCHANGED <<territoryVars, chaosVars, E, layers, global_kappa, perceived_objects, current_time,
                   similarity_cache, total_heat_loss, T, last_cleanup, leap_check,
                   leap_result, reactVars, caller_time, cacheVars>>

NextPartial ==
    \/ AlignPartial
    \/ \E o \in ObjIds : PressurePartial(o)
    \/ LeapPartial
    \/ \E actions \in ActionInputs : DecidePartial(actions)

SpecPartial == InitPartial /\ [][NextPartial]_vars

CoreOperations == {"align", "accumulate_pressure", "execute_leap", "decide"}

\* C14 as stated: a core operation handed a table that omits a layer rejects
\* the call with InvalidConfiguration.
OmittedLayerRejected ==
    (last_op.op \in CoreOperations /\ last_op.omitted # {}) =>
        last_op.raised = "InvalidConfiguration"

\* C14, amended: a core operation handed a table that omits a layer raises no
\* error; it works on the layers the table has and leaves the omitted ones out
\* of it.
OmittedLayerSkipped ==
    [][(last_op'.op \in CoreOperations /\ last_op'.omitted # {}) =>
          /\ last_op'.raised = "none"
          /\ DOMAIN layers' = DOMAIN layers
          /\ last_op'.omitted = Layers \ DOMAIN layers']_vars

\* C14's case: an alignment over a table without the physical layer went on to
\* activate the element of the base layer
AlignedWithoutPhysical ==
    /\ last_op.op = "align"
    /\ "physical" \in last_op.omitted
    /\ "base" \in DOMAIN layers
    /\ layers["base"]["water_need"].activation > 0

-----------------------------------------------------------------------------
(* The territory processor driven directly *)

ExperienceTypes == {"territory_defense", "hostile_encounter"}
TerritoryTicks == {1, 2}

\* process_territorial_experience(npc_id, location, experience_type,
\* experience_valence = 1.0, other_npcs = None, tick)
TerritorialExperience(npc, location, type, tick) ==
    LET valence == SCALE
        known == IF npc \in DOMAIN boundary_strength THEN boundary_strength[npc]
                 ELSE [o \in {} |-> 0]
        strengths0 == [n \in DOMAIN boundary_strength \cup {npc} |->
                          IF n = npc THEN known ELSE boundary_strength[n]]
        loc == location_id(location)
        updated == new_strength(get_boundary_strength(strengths0, npc, loc), valence, type)
        strengths1 == [strengths0 EXCEPT ![npc] = Put(@, loc, updated)]
    IN
    /\ calls < MaxCalls
    /\ boundary_strength' = strengths1
    /\ IF valence > territory_claim_threshold /\ npc \notin DOMAIN npc_territories
       THEN \E resource \in ResourceDraws :
              LET safety == calculate_safety_feeling(
                                get_boundary_strength(strengths1, npc, loc),
                                count_nearby_allies(strengths1, npc), resource)
              IN IF safety >= territory_claim_threshold
                 THEN /\ territories' =
                            Append(territories,
                                   [territory_id |-> <<npc, tick>>, center |-> location,
                                    radius |-> territory_radius(safety),
                                    owner_npc |-> npc, members |-> {npc},
                                    established_tick |-> tick,
                                    territorial_strength |-> safety])
                      /\ npc_territories' = Put(npc_territories, npc, <<npc, tick>>)
                 ELSE UNCHANGED <<territories, npc_territories>>
       ELSE UNCHANGED <<territories, npc_territories>>
    /\ calls' = calls + 1
    /\ last_op' = Op("process_territorial_experience")
    /\ UNCHANGED <<chaosVars, engineVars, reactVars, caller_time, cacheVars, leap_check,
                   leap_result, interaction>>

\* check_territorial_interaction(npc_id, target_location)
CheckTerritorialInteraction(npc, target) ==
    /\ interaction' =
          [territorial_interaction(territories, 1, npc, target, boundary_strength)
              EXCEPT !.npc_id = npc, !.target_location = target]
    /\ last_op' = Op("check_territorial_interaction")
    /\ UNCHANGED <<chaosVars, engineVars, reactVars, calls, caller_time, cacheVars,
                   leap_check, leap_result, territories, npc_territories,
                   boundary_strength>>

NextTerritory ==
    \/ \E npc \in Npcs, location \in Locations, type \in ExperienceTypes,
          tick \in TerritoryTicks : TerritorialExperience(npc, location, type, tick)
    \/ \E npc \in Npcs, target \in Locations : CheckTerritorialInteraction(npc, target)

SpecTerritory == Init /\ [][NextTerritory]_vars

\* the territory an NPC holds
territory_of(npc) ==
    CHOOSE t \in {territories[i] : i \in DOMAIN territories} :
        t.territory_id = npc_territories[npc]

\* C22 as stated: a check for an NPC that holds a territory, at the location
\* where it claimed it, reports is_own_territory, whatever other territories
\* exist.
OwnTerritoryRecognised ==
    (/\ last_op.op = "check_territorial_interaction"
     /\ interaction.npc_id \in DOMAIN npc_territories
     /\ interaction.target_location = territory_of(interaction.npc_id).center) =>
        interaction.is_own_territory

\* the crisis levels from mildest to worst
crisis_rank(level) ==
    CASE level = "none" -> 0 [] level = "moderate" -> 1
      [] level = "severe" -> 2 [] level = "critical" -> 3

ProbeValues == {k * 10 * SCALE : k \in 0..10}

\* C23 as stated: for a danger or threat the comparison is inverted, so no
\* lower minimum forecast value is classified worse than the forecast's own.
DangerComparisonInverted ==
    (last_op.op = "forecast" /\ last_op.object.type \in {"danger", "threat"}) =>
        \A v \in ProbeValues :
            v < min_pred(last_op.predictions) =>
                crisis_rank(assess_crisis_level(<<v>>, last_op.object.type))
                    <= crisis_rank(last_op.crisis_level)

\* the number of entries of cache c that are at most 10 ticks old at `now`
recent_entries(c, now) == SumCounts(c, {ts \in DOMAIN c : now - ts <= CacheExpiry})

\* C24 as stated: a store into the full cache deletes more than the entries
\* older than 10 ticks only if the entries left are still over the cap of 100.
HalvedOnlyOverCap ==
    [][(last_op'.op = "predict" /\ prediction'.cleaned) =>
          (CacheSize(prediction_cache') < recent_entries(prediction_cache, prediction'.now)
              => recent_entries(prediction_cache, prediction'.now) > PredictionCacheCap)]_vars

\* C24, amended: a store into the full cache deletes the entries older than 10
\* ticks and then the oldest half of the rest if more than 50 are left; no
\* expired entry remains, and the cache holds the entries left and the stored one.
HalvedOverFifty ==
    [][(last_op'.op = "predict" /\ prediction'.cleaned) =>
          LET recent == recent_entries(prediction_cache, prediction'.now)
              left == IF recent > CacheKeepMax THEN recent - recent \div 2 ELSE recent
          IN /\ CacheSize(prediction_cache') \in {left, left + 1}
             /\ recent_entries(prediction_cache', prediction'.now)
                    = CacheSize(prediction_cache')]_vars

\* C24's case: the full cache held 100 entries that were not expired; half of
\* them were deleted and the new result stored
HalvedAtCap ==
    /\ last_op.op = "predict"
    /\ prediction.cleaned
    /\ CacheSize(prediction_cache) = CacheKeepMax + 1


-----------------------------------------------------------------------------
(* The layers a leap affects                                               *)

\* C25: execute_leap tries Physical, Base, Core, Upper when the mean
\* survival relevance is above 0.6 and stops once 2 layers are affected;
\* otherwise it tries Upper, Core, Base and stops at the first affected
\* layer.  So affected_layers lists at most 2 layers (at most 1 when not
\* survival-driven), in traversal order, and never Physical when not
\* survival-driven.
LeapTraversal ==
    [][last_op'.op = "execute_leap" =>
          LET urgent == survival_urgency(perceived_objects) > 6000
              order == IF urgent THEN <<"physical", "base", "core", "upper">>
                       ELSE <<"upper", "core", "base">>
              affected == leap_result'.affected_layers
              place(l) == CHOOSE i \in 1..Len(order) : order[i] = l
          IN /\ leap_result'.survival_driven = urgent
             /\ Len(affected) <= (IF urgent THEN 2 ELSE 1)
             /\ \A i \in 1..Len(affected) : \E j \in 1..Len(order) : order[j] = affected[i]
             /\ \A i \in 1..Len(affected), j \in 1..Len(affected) :
                   i < j => place(affected[i]) < place(affected[j])
             /\ (~urgent) => \A i \in 1..Len(affected) : affected[i] # "physical"]_vars

\* a survival-driven leap that affected two layers
TwoLayersAffected ==
    /\ last_op.op = "execute_leap"
    /\ leap_result.survival_driven
    /\ Len(leap_result.affected_layers) = 2


-----------------------------------------------------------------------------
(* Deliberation over stimuli that reach every branch of the integration    *)

MaxDeliberated == 2     \* queue length up to which this caller reacts

ValueAlignments == {2000, 5000, 9000}

\* threats of full intensity with and without a social context, and food of
\* full intensity at a dangerous place
IntegrateStimuli ==
    {[type |-> "threat", intensity |-> SCALE, social_context |-> sc,
      danger_level |-> 0, value_alignment |-> va, long_term_benefit |-> 5000] :
        sc \in BOOLEAN, va \in ValueAlignments}
    \cup
    {[type |-> "food", intensity |-> SCALE, social_context |-> FALSE,
      danger_level |-> 5000, value_alignment |-> va, long_term_benefit |-> 5000] :
        va \in ValueAlignments}

NextIntegrate ==
    \/ \E st \in IntegrateStimuli, now \in ReactFillTimes :
          React(st, now, MaxDeliberated)
    \/ \E now \in ReactFillTimes : Reprocess(now)

SpecIntegrate == Init /\ [][NextIntegrate]_vars

\* final_strength in units of 1/100000, from the fields of a deliberated result
result_strength(r) ==
    LET upper_modifier ==
            CASE r.upper_evaluation.recommendation = "enhance"  -> 10
              [] r.upper_evaluation.recommendation = "suppress" -> 5
              [] r.upper_evaluation.recommendation = "neutral"  -> 8
    IN (r.unconscious_response.strength \div 10)
       * ((SCALE - r.core_adjustment.suppression_factor) \div 1000)
       * upper_modifier

\* C26: the deliberated final action is the immediate action when
\* final_strength = base_strength * (1 - suppression) * upper_modifier is
\* above 0.7, the core-adjusted action when it is above 0.4 but not above 0.7,
\* and "deliberate" otherwise, upper_modifier being 1.0 / 0.5 / 0.8 for the
\* recommendations enhance / suppress / neutral.
FinalActionByStrength ==
    \A i \in 1..Len(processed) :
        LET r == processed[i]
            final_strength == result_strength(r)
        IN r.final_action =
              (IF final_strength > 70000 THEN r.unconscious_response.action
               ELSE IF final_strength > 40000 THEN r.core_adjustment.action
               ELSE "deliberate")

\* one reprocess call that let an immediate action stand and replaced another
\* by the core-adjusted action: a flee kept under an enhancing upper layer
\* and an approach turned into a cautious approach
StoodAndAdjusted ==
    /\ last_op.op = "reprocess"
    /\ \E i \in 1..Len(processed) :
          /\ processed[i].final_action = "flee"
          /\ result_strength(processed[i]) > 70000
    /\ \E i \in 1..Len(processed) :
          /\ processed[i].final_action = "cautious_approach"
          /\ processed[i].unconscious_response.action = "approach"


-----------------------------------------------------------------------------
(* The writers of the kappa table                                          *)

\* C27: the global inertia table has a single writer: the leap check, the
\* leap, the decision, the temperature update, the thermal alignment and the
\* prediction never add, remove or change an entry; only the flow-mode
\* alignment step does, so a step() leaves the table its alignment stage
\* made and every other operation leaves the table as it was.
KappaSingleWriter ==
    [][IF last_op'.op \in {"step", "process_alignment_step"}
       THEN global_kappa' = aligned_kappa(layers, global_kappa)
       ELSE global_kappa' = global_kappa]_vars

\* a step() that aligned two entries, leapt and decided between actions that
\* have no entry
SteppedThroughEveryReader ==
    /\ last_op.op = "step"
    /\ Cardinality(DOMAIN global_kappa) = 2
    /\ leap_result.leap_type # "none"
    /\ leap_check.over
    /\ decision_history # <<>>
    /\ decision_history[Len(decision_history)].action \notin DOMAIN global_kappa


-----------------------------------------------------------------------------
(* What becomes of an enqueued stimulus                                    *)

\* every due entry gives one result at a reprocess call and leaves the queue,
\* and no due entry stays behind
released_once ==
    last_op'.op = "reprocess" =>
        /\ Len(processed') + Len(pending_reactions') = Len(pending_reactions)
        /\ Len(processed') =
              Cardinality({i \in DOMAIN pending_reactions :
                              caller_time' >= pending_reactions[i].process_at})
        /\ \A i \in DOMAIN pending_reactions' :
              caller_time' < pending_reactions'[i].process_at

\* C28 as stated: every stimulus passed to react is deliberated exactly once,
\* at the first reprocess call whose clock has reached its scheduled time,
\* however many stimuli are enqueued before that call: no react call takes
\* a waiting entry out of the queue.
EveryStimulusDeliberated ==
    [][/\ last_op'.op = "react" =>
             /\ Len(pending_reactions') = Len(pending_reactions) + 1
             /\ SubSeq(pending_reactions', 1, Len(pending_reactions)) = pending_reactions
       /\ released_once]_vars

\* C28 with the bound of the queue: a stimulus is deliberated exactly once, at
\* the first reprocess call whose clock has reached its scheduled time,
\* provided fewer than 100 stimuli are enqueued after it before that call: a
\* react call keeps, in their order, every waiting entry that has fewer than
\* 99 entries behind it.
DeliberatedUnlessPushedOut ==
    [][/\ last_op'.op = "react" =>
             LET n == Len(pending_reactions)
                 lost == n + 1 - Len(pending_reactions')
             IN /\ lost \in {0, 1}
                /\ \A i \in 1..n :
                      n - i < PendingMaxLen - 1 =>
                         /\ i - lost >= 1
                         /\ pending_reactions'[i - lost] = pending_reactions[i]
       /\ released_once]_vars

\* a full queue whose hundred entries were all deliberated by one call
FullQueueDeliberated ==
    /\ last_op.op = "reprocess"
    /\ Len(processed) = PendingMaxLen
    /\ pending_reactions = <<>>


-----------------------------------------------------------------------------
(* Leaps and maintenance over elements added without connections          *)

\* add_structural_element(layer, id) was called for both ids in the base and
\* in the upper layer
InitConnections ==
    /\ E \in {0, 5 * SCALE}
    /\ perceived_objects \in {{}, {"water_critical"}}
    /\ global_kappa = EmptyDict
    /\ layers = [l \in Layers |->
                    IF l \in {"base", "upper"} THEN [e \in ElemIds |-> new_element(l)]
                    ELSE EmptyDict]
    /\ similarity_cache = EmptyDict
    /\ total_heat_loss = 0
    /\ decision_history = <<>>
    /\ last_cleanup = 0
    /\ current_time = 0
    /\ T = T_INITIAL
    /\ leap_check = NoLeapCheck
    /\ leap_result = NoLeap
    /\ ReactInit
    /\ CacheInit
    /\ TerritoryInit
    /\ ChaosInit
    /\ calls = 0
    /\ last_op = Op("init")

NextConnections ==
    \/ ExecuteLeap
    \/ SystemMaintenance

SpecConnections == InitConnections /\ [][NextConnections]_vars

\* C29: starting from elements added without initial connections, after any
\* sequence of leaps and maintenance runs every connection recorded on an
\* element points to a different element that still exists in the same layer
\* and records the same strength back.
ConnectionsSymmetric ==
    \A l \in Layers :
        \A e \in DOMAIN layers[l] :
            \A o \in DOMAIN layers[l][e].connections :
                /\ o # e
                /\ o \in DOMAIN layers[l]
                /\ e \in DOMAIN layers[l][o].connections
                /\ layers[l][o].connections[e] = layers[l][e].connections[o]

\* a maintenance run that pruned an element of one layer while the elements of
\* another layer are connected
PrunedBesideConnected ==
    /\ last_op.op = "system_maintenance"
    /\ \E l \in Layers : Cardinality(DOMAIN layers[l]) = 1
    /\ \E l \in Layers : \E e \in DOMAIN layers[l] :
          DOMAIN layers[l][e].connections # {}


-----------------------------------------------------------------------------
(* The chaotic leap processor called directly                              *)

MaxLeapCalls == 2       \* execute_leap calls per run

ChaosPressures == {SCALE, 12000, 5 * SCALE}
ChaosResistances == {SCALE}
ChaosLayers == {"upper"}

\* the layer of each structural state passed in
ChaosStates == [water_need |-> "base", concept |-> "upper"]

\* ChaoticLeapProcessor.execute_leap(meaning_pressure, alignment_state, layer,
\* structural_states)
ExecuteChaoticLeap(meaning_pressure, alignment_state, layer) ==
    /\ calls < MaxLeapCalls
    /\ \E d \in LeapDraws :
          LET out == chaotic_execute_leap(meaning_pressure, alignment_state, layer,
                                          ChaosStates, strange_attractor_state,
                                          time_step, leap_history, d)
          IN /\ leap_history' = out.history
             /\ strange_attractor_state' = out.state
             /\ time_step' = out.steps
             /\ leap_event' = [called |-> TRUE, meaning_pressure |-> meaning_pressure,
                               alignment_state |-> alignment_state,
                               event |-> out.event]
    /\ calls' = calls + 1
    /\ last_op' = Op("chaotic_execute_leap")
    /\ UNCHANGED <<territoryVars, engineVars, reactVars, caller_time, cacheVars,
                   leap_check, leap_result>>

NextChaos ==
    \E p \in ChaosPressures, r \in ChaosResistances, layer \in ChaosLayers :
        ExecuteChaoticLeap(p, r, layer)

SpecChaos == Init /\ [][NextChaos]_vars

\* C30 as stated: execute_leap returns no LeapEvent and leaves the leap
\* history, the attractor state and the time step unchanged whenever the
\* pressure does not exceed 1.2 times the alignment resistance, for every
\* outcome of the random draw.
NoLeapBelowThreshold ==
    [][(/\ last_op'.op = "chaotic_execute_leap"
        /\ 10 * leap_event'.meaning_pressure <= 12 * leap_event'.alignment_state) =>
          /\ leap_event'.event = NoLeapEvent
          /\ UNCHANGED <<leap_history, strange_attractor_state, time_step>>]_vars

====
